---- MODULE Spec2Model ----
(***************************************************************************)
(* Model of the FLUX.2 Klein demo: the generation proxy                    *)
(* (src/pages/api/generate.ts, POST) as a state machine whose steps are    *)
(* the stretches of the async handler between two awaits.                  *)
(***************************************************************************)
EXTENDS Integers, Sequences, FiniteSets, TLC

(* ------------------------------------------------------------------ *)
(* JavaScript values                                                   *)
(* ------------------------------------------------------------------ *)

\* The value of an absent JSON field / destructured property.
UNDEFINED == "<undefined>"

\* JavaScript truthiness of a string-or-undefined value.
Truthy(v) == v # UNDEFINED /\ v # ""

\* a || b
Or(a, b) == IF Truthy(a) THEN a ELSE b

\* `${v}` in a template literal.
Template(v) == IF v = UNDEFINED THEN "undefined" ELSE v

(* ------------------------------------------------------------------ *)
(* Bounds                                                              *)
(* ------------------------------------------------------------------ *)

\* The production loop is while(true); the model stops issuing polls after
\* MaxPolls of them.
MaxPolls == 4

\* How many polls the model follows when the handler is compared with its
\* bounded variant: one more than the variant's cap.
MaxPollsCompared == 11

(* ------------------------------------------------------------------ *)
(* Program constants                                                   *)
(* ------------------------------------------------------------------ *)

BFL_API_9B == "https://api.bfl.ai/v1/flux-2-klein-9b"
BFL_API_4B == "https://api.bfl.ai/v1/flux-2-klein-4b"

\* new Response(body, {headers}) without a status has status 200.
DefaultStatus == 200

(* ------------------------------------------------------------------ *)
(* btoa over the bytes of the fetched reference image                  *)
(* ------------------------------------------------------------------ *)

B64 ==
  << "A","B","C","D","E","F","G","H","I","J","K","L","M","N","O","P",
     "Q","R","S","T","U","V","W","X","Y","Z","a","b","c","d","e","f",
     "g","h","i","j","k","l","m","n","o","p","q","r","s","t","u","v",
     "w","x","y","z","0","1","2","3","4","5","6","7","8","9","+","/" >>

B64Char(n) == B64[n + 1]

\* Variant of btoa that leaves out the padding of the last group.
RECURSIVE btoa_NoPadding(_)
btoa_NoPadding(bytes) ==
  IF Len(bytes) = 0 THEN ""
  ELSE IF Len(bytes) = 1 THEN
    B64Char(bytes[1] \div 4) \o B64Char((bytes[1] % 4) * 16)
  ELSE IF Len(bytes) = 2 THEN
    B64Char(bytes[1] \div 4)
      \o B64Char((bytes[1] % 4) * 16 + bytes[2] \div 16)
      \o B64Char((bytes[2] % 16) * 4)
  ELSE
    B64Char(bytes[1] \div 4)
      \o B64Char((bytes[1] % 4) * 16 + bytes[2] \div 16)
      \o B64Char((bytes[2] % 16) * 4 + bytes[3] \div 64)
      \o B64Char(bytes[3] % 64)
      \o btoa_NoPadding(SubSeq(bytes, 4, Len(bytes)))

RECURSIVE btoa(_)
btoa(bytes) ==
  IF Len(bytes) = 0 THEN ""
  ELSE IF Len(bytes) = 1 THEN
    B64Char(bytes[1] \div 4) \o B64Char((bytes[1] % 4) * 16) \o "=="
  ELSE IF Len(bytes) = 2 THEN
    B64Char(bytes[1] \div 4)
      \o B64Char((bytes[1] % 4) * 16 + bytes[2] \div 16)
      \o B64Char((bytes[2] % 16) * 4) \o "="
  ELSE
    B64Char(bytes[1] \div 4)
      \o B64Char((bytes[1] % 4) * 16 + bytes[2] \div 16)
      \o B64Char((bytes[2] % 16) * 4 + bytes[3] \div 64)
      \o B64Char(bytes[3] % 64)
      \o btoa(SubSeq(bytes, 4, Len(bytes)))

(* ------------------------------------------------------------------ *)
(* Requests, responses and their bodies                                *)
(* ------------------------------------------------------------------ *)

\* The JSON body of the client request, destructured at line 18.
Requests ==
  [ prompt   : {UNDEFINED, "", "a cat"},
    apiKey   : {UNDEFINED, "", "test-key"},
    image    : {UNDEFINED, "", "aGVsbG8="},
    imageUrl : {UNDEFINED, "https://x/ref.png"},
    variant  : {UNDEFINED, "9b", "4b", "4B"} ]

\* A response body: either text that JSON.parse accepts (an object with the
\* fields the handler reads) or text it rejects.
JsonBody(detail, message, error, status, sample, polling_url, result_sample) ==
  [ parses |-> TRUE, text |-> "",
    detail |-> detail, message |-> message, error |-> error,
    status |-> status, sample |-> sample, polling_url |-> polling_url,
    result_sample |-> result_sample ]

TextBody(text) ==
  [ parses |-> FALSE, text |-> text,
    detail |-> UNDEFINED, message |-> UNDEFINED, error |-> UNDEFINED,
    status |-> UNDEFINED, sample |-> UNDEFINED, polling_url |-> UNDEFINED,
    result_sample |-> UNDEFINED ]

\* A fetch Response. rereadable: whether text() still answers after json()
\* consumed the body and failed to parse it. A Response of the Fetch standard
\* is read once (the second read rejects with a TypeError); the stubbed
\* responses of src/test carry independent json() and text() functions.
Res(ok, status, body, rereadable) ==
  [ ok |-> ok, status |-> status, body |-> body, rereadable |-> rereadable ]

NoResponse == Res(FALSE, 0, TextBody(""), FALSE)

ErrorBodies ==
  { JsonBody(d, m, e, UNDEFINED, UNDEFINED, UNDEFINED, UNDEFINED) :
      d \in {UNDEFINED, "Invalid API key"},
      m \in {UNDEFINED, "Rate limit exceeded"},
      e \in {UNDEFINED, "", "Bad request"} }
  \cup { TextBody(t) : t \in {"", "Internal server error"} }

ErrorStatuses == {401, 500}

ErrorResponses ==
  { Res(FALSE, st, b, FALSE) : st \in ErrorStatuses, b \in ErrorBodies }
  \cup { Res(FALSE, st, TextBody(t), TRUE) :
           st \in ErrorStatuses, t \in {"", "Internal server error"} }

SubmitResponses ==
  { Res(TRUE, 200,
        JsonBody(UNDEFINED, UNDEFINED, UNDEFINED, UNDEFINED, s, p, UNDEFINED),
        FALSE) :
      s \in {UNDEFINED, "", "https://x/img.png"},
      p \in {UNDEFINED, "https://x/poll/1"} }
  \cup { Res(TRUE, 200, TextBody("<html>"), FALSE) }
  \cup ErrorResponses

PollResponses ==
  { Res(TRUE, 200, JsonBody(d, m, e, st, UNDEFINED, UNDEFINED, rs), FALSE) :
      d \in {UNDEFINED, "Task not found"},
      m \in {UNDEFINED, "Request moderated"},
      e \in {UNDEFINED, "Generation failed"},
      st \in {UNDEFINED, "Pending", "Ready", "Failed", "ContentModerated"},
      rs \in {UNDEFINED, "https://x/final.png"} }
  \cup { Res(TRUE, 200, TextBody("<html>"), FALSE) }
  \cup ErrorResponses

\* The bytes a reference-image URL answers with.
ImageBytes == { <<255>>, <<104, 105>>, <<137, 80, 78>>, <<137, 80, 78, 71>> }

ImageResponses ==
  { [ ok |-> TRUE, status |-> 200, bytes |-> b ] : b \in ImageBytes }
  \cup { [ ok |-> FALSE, status |-> 404, bytes |-> << >> ] }

NoImageResponse == [ ok |-> FALSE, status |-> 0, bytes |-> <<>> ]

(* ------------------------------------------------------------------ *)
(* JSON.stringify of a parsed body                                     *)
(* ------------------------------------------------------------------ *)

Quote(s) == "\"" \o s \o "\""

Members(b) ==
  LET all == << <<"detail", b.detail>>, <<"message", b.message>>,
                <<"error", b.error>>, <<"status", b.status>>,
                <<"sample", b.sample>>, <<"polling_url", b.polling_url>> >>
      Present(p) == p[2] # UNDEFINED
      plain == SelectSeq(all, Present)
      Member(p) == Quote(p[1]) \o ":" \o Quote(p[2])
      nested == IF b.result_sample = UNDEFINED THEN << >>
                ELSE << Quote("result") \o ":{" \o Quote("sample") \o ":"
                          \o Quote(b.result_sample) \o "}" >>
  IN  [i \in 1..Len(plain) |-> Member(plain[i])] \o nested

RECURSIVE Join(_)
Join(ms) ==
  IF Len(ms) = 0 THEN ""
  ELSE IF Len(ms) = 1 THEN ms[1]
  ELSE ms[1] \o "," \o Join(Tail(ms))

JSONstringify(b) == "{" \o Join(Members(b)) \o "}"

(* ------------------------------------------------------------------ *)
(* State of one invocation of POST                                     *)
(* ------------------------------------------------------------------ *)

VARIABLES
  pc,          \* where the handler is suspended: "idle" (not yet invoked),
               \* "urlToBase64", "submit", "wait", "poll", or finished:
               \* "done" (returned a Response), "threw" (rejected)
  request,     \* the destructured request JSON
  requestBody, \* the body built for the provider
  calls,       \* every fetch() issued so far, in order
  imageRes,    \* the answer of the reference-image fetch
  submitRes,   \* the answer of the submit POST
  pollUrl,     \* submitData.polling_url
  pollRes,     \* the answer of the latest poll GET
  pollLog,     \* history: the status of every poll answer received
  response     \* the Response the handler returned

vars == << pc, request, requestBody, calls, imageRes, submitRes, pollUrl,
           pollRes, pollLog, response >>

\* The state of the ImageGenerator component, which calls the handler above
\* through fetch('/api/generate').  The handler's actions leave it alone.
VARIABLES
  state,       \* the component's useState values as of the latest setState
  rendered,    \* what the handlers created by the last render read of the
               \* useState values (their closure)
  batch,       \* how many event handlers have made updates that are not
               \* rendered yet
  refs,        \* the useRef values
  attempts,    \* every handleGenerate invocation that got past its guard
  drops,       \* every handleDrop invocation, in order
  intervals,   \* the setInterval timers that are running
  fetches,     \* every fetch('/api/generate') body sent so far, in order
  alerts,      \* every alert() message shown so far, in order
  frames       \* TRUE while a requestAnimationFrame callback has not run

ctlVars == << state, rendered, batch, refs, attempts, drops, intervals,
              fetches, alerts, frames >>

\* The bounded variant of the handler that src/test/api/generate.test.ts
\* exercises (handleGenerate there): its position, what it read and sent,
\* its iteration counter and its result, as one record.
VARIABLE bounded

allVars == << vars, ctlVars, bounded >>

NoRequest ==
  [ prompt |-> UNDEFINED, apiKey |-> UNDEFINED, image |-> UNDEFINED,
    imageUrl |-> UNDEFINED, variant |-> UNDEFINED ]

NoBody ==
  [ prompt |-> UNDEFINED, width |-> 0, height |-> 0,
    prompt_upsampling |-> FALSE, input_image |-> UNDEFINED ]

\* What the handler hands back: {url} or {error}, with the HTTP status.
Response(url, error, status) ==
  [ url |-> url, error |-> error, status |-> status ]

NoReturn == Response(UNDEFINED, UNDEFINED, 0)

\* One fetch(url, init): kind is "image", "submit" or "poll".
Call(kind, method, url, xKey, body) ==
  [ kind |-> kind, method |-> method, url |-> url, xKey |-> xKey,
    body |-> body ]

CallsOf(kind) == SelectSeq(calls, LAMBDA c : c.kind = kind)

(* ------------------------------------------------------------------ *)
(* The decisions of the handler                                        *)
(* ------------------------------------------------------------------ *)

\* Variant of apiUrl that tests for the other variant, so that the default
\* falls to the 4B endpoint.
apiUrl_DefaultSwapped(variant) ==
  IF variant = "9b" THEN BFL_API_9B ELSE BFL_API_4B

\* line 19
apiUrl(variant) == IF variant = "4b" THEN BFL_API_4B ELSE BFL_API_9B

\* Variant of MissingInput that forgets the credential.
MissingInput_PromptOnly(req) == ~Truthy(req.prompt)

\* line 21
MissingInput(req) == ~Truthy(req.prompt) \/ ~Truthy(req.apiKey)

\* lines 22-25
ValidationResponse == Response(UNDEFINED, "Missing prompt or API key", 400)

\* lines 28-33
BaseBody(req) ==
  [ prompt |-> req.prompt, width |-> 768, height |-> 768,
    prompt_upsampling |-> FALSE, input_image |-> UNDEFINED ]

\* Variant of ImageSource that prefers the source URL to the inline payload.
ImageSource_UrlFirst(req) ==
  IF Truthy(req.imageUrl) THEN "url"
  ELSE IF Truthy(req.image) THEN "inline"
  ELSE "none"

\* lines 36-40: where input_image comes from.
ImageSource(req) ==
  IF Truthy(req.image) THEN "inline"
  ELSE IF Truthy(req.imageUrl) THEN "url"
  ELSE "none"

\* lines 43-50
SubmitCall(req, body) ==
  Call("submit", "POST", apiUrl(req.variant), req.apiKey, body)

\* Variant of PollCall that sends no credential header.
PollCall_NoKey(url, req) == Call("poll", "GET", url, UNDEFINED, NoBody)

PollCall_Resubmits(url, req) == Call("submit", "POST", url, req.apiKey, NoBody)

\* lines 88-90
PollCall(url, req) == Call("poll", "GET", url, req.apiKey, NoBody)

\* line 7
ImageCall(url) == Call("image", "GET", url, UNDEFINED, NoBody)

\* lines 53-59 and 93-99: the message of a response that is not ok.
\* threw: the catch block's text() rejected, so the handler rejects.
ErrorMessage(res, generic) ==
  IF res.body.parses
    THEN [ threw |-> FALSE,
           message |-> Or(Or(Or(res.body.detail, res.body.message),
                             res.body.error),
                          JSONstringify(res.body)) ]
  ELSE IF ~res.rereadable
    THEN [ threw |-> TRUE, message |-> UNDEFINED ]
  ELSE [ threw |-> FALSE, message |-> Or(res.body.text, generic) ]

\* line 53
SubmitGeneric(res) == "BFL API error (" \o ToString(res.status) \o ")"

\* line 93
PollGeneric(res) == "Poll error (" \o ToString(res.status) \o ")"

\* Variant of ErrorResponse that answers every provider error with 500.
ErrorResponse_Always500(res, message) == Response(UNDEFINED, message, 500)

\* lines 60-63 and 100-103
ErrorResponse(res, message) == Response(UNDEFINED, message, res.status)

\* Variant of SubmitOutcome that looks at the polling url first.
SubmitOutcome_HandleFirst(submitData) ==
  IF Truthy(submitData.polling_url) THEN "poll"
  ELSE IF Truthy(submitData.sample) THEN "direct"
  ELSE "nohandle"

\* Variant of SubmitOutcome without the check of the polling url.
SubmitOutcome_NoHandleCheck(submitData) ==
  IF Truthy(submitData.sample) THEN "direct" ELSE "poll"

\* lines 69-83: what the handler does with an ok submit answer.
SubmitOutcome(submitData) ==
  IF Truthy(submitData.sample) THEN "direct"
  ELSE IF ~Truthy(submitData.polling_url) THEN "nohandle"
  ELSE "poll"

\* lines 70-72 and 109-111
UrlResponse(url) == Response(url, UNDEFINED, DefaultStatus)

\* lines 79-82
NoPollingUrlResponse == Response(UNDEFINED, "No polling URL in response", 500)

\* Variant of PollOutcome without the Pending check: anything that is not
\* Ready with a sample is a failure.
PollOutcome_NoPendingCheck(result) ==
  IF result.status = "Ready" /\ Truthy(result.result_sample) THEN "success"
  ELSE "failure"

\* Variant of PollOutcome that keeps polling a Ready answer until it
\* carries a sample.
PollOutcome_WaitsForSample(result) ==
  IF result.status = "Ready" /\ Truthy(result.result_sample) THEN "success"
  ELSE IF result.status \in {"Pending", "Ready"} THEN "continue"
  ELSE "failure"

\* Variant of PollOutcome that polls again after a Failed answer.
PollOutcome_RetryOnFailed(result) ==
  IF result.status = "Ready" /\ Truthy(result.result_sample) THEN "success"
  ELSE IF result.status \in {"Pending", "Failed"} THEN "continue"
  ELSE "failure"

\* lines 108-124: what the handler does with an ok poll answer.
PollOutcome(result) ==
  IF result.status = "Ready" /\ Truthy(result.result_sample) THEN "success"
  ELSE IF result.status = "Pending" THEN "continue"
  ELSE "failure"

\* Variant of FailureResponse that prefers the fields in the order of the
\* HTTP error policy (detail, message, error).
FailureResponse_DetailFirst(result) ==
  Response(UNDEFINED,
           Or(Or(Or(result.detail, result.message), result.error),
              "Generation failed: " \o Template(result.status)),
           500)

\* lines 120-124
FailureResponse(result) ==
  Response(UNDEFINED,
           Or(Or(Or(result.error, result.message), result.detail),
              "Generation failed: " \o Template(result.status)),
           500)

(* ------------------------------------------------------------------ *)
(* The handler, one action per stretch between two awaits              *)
(* ------------------------------------------------------------------ *)

Init ==
  /\ pc = "idle"
  /\ request = NoRequest
  /\ requestBody = NoBody
  /\ calls = << >>
  /\ imageRes = NoImageResponse
  /\ submitRes = NoResponse
  /\ pollUrl = UNDEFINED
  /\ pollRes = NoResponse
  /\ pollLog = << >>
  /\ response = NoReturn

\* lines 17-50: entry, validation, request body, up to the first await.
POST(req) ==
  /\ UNCHANGED << ctlVars, bounded >>
  /\ pc = "idle"
  /\ request' = req
  /\ IF MissingInput(req)
       THEN /\ pc' = "done"
            /\ response' = ValidationResponse
            /\ UNCHANGED << requestBody, calls >>
     ELSE IF ImageSource(req) = "url"
       THEN /\ pc' = "urlToBase64"
            /\ requestBody' = BaseBody(req)
            /\ calls' = Append(calls, ImageCall(req.imageUrl))
            /\ UNCHANGED response
     ELSE /\ pc' = "submit"
          /\ requestBody' =
               IF ImageSource(req) = "inline"
                 THEN [BaseBody(req) EXCEPT !.input_image = req.image]
                 ELSE BaseBody(req)
          /\ calls' = Append(calls, SubmitCall(req, requestBody'))
          /\ UNCHANGED response
  /\ UNCHANGED << imageRes, submitRes, pollUrl, pollRes, pollLog >>

\* lines 7-14 and 39-50: the reference image arrived; encode it and submit.
\* urlToBase64 does not look at response.ok.
ImageFetched(res) ==
  /\ UNCHANGED << ctlVars, bounded >>
  /\ pc = "urlToBase64"
  /\ imageRes' = res
  /\ requestBody' = [requestBody EXCEPT !.input_image = btoa(res.bytes)]
  /\ calls' = Append(calls, SubmitCall(request, requestBody'))
  /\ pc' = "submit"
  /\ UNCHANGED << request, submitRes, pollUrl, pollRes, pollLog, response >>

\* line 7: fetch(url) rejects (network failure); nothing catches it.
ImageFetchRejected ==
  /\ UNCHANGED << ctlVars, bounded >>
  /\ pc = "urlToBase64"
  /\ pc' = "threw"
  /\ UNCHANGED << request, requestBody, calls, imageRes, submitRes, pollUrl,
                  pollRes, pollLog, response >>

\* lines 52-83: the submit answer arrived.
SubmitResponded(res) ==
  /\ UNCHANGED << ctlVars, bounded >>
  /\ pc = "submit"
  /\ submitRes' = res
  /\ IF ~res.ok
       THEN LET e == ErrorMessage(res, SubmitGeneric(res)) IN
            IF e.threw
              THEN pc' = "threw" /\ UNCHANGED << response, pollUrl >>
              ELSE /\ pc' = "done"
                   /\ response' = ErrorResponse(res, e.message)
                   /\ UNCHANGED pollUrl
     ELSE IF ~res.body.parses
       THEN pc' = "threw" /\ UNCHANGED << response, pollUrl >>
     ELSE IF SubmitOutcome(res.body) = "direct"
       THEN /\ pc' = "done"
            /\ response' = UrlResponse(res.body.sample)
            /\ UNCHANGED pollUrl
     ELSE IF SubmitOutcome(res.body) = "nohandle"
       THEN /\ pc' = "done"
            /\ response' = NoPollingUrlResponse
            /\ pollUrl' = res.body.polling_url
     ELSE /\ pc' = "wait"
          /\ pollUrl' = res.body.polling_url
          /\ UNCHANGED response
  /\ UNCHANGED << request, requestBody, calls, imageRes, pollRes, pollLog >>

\* line 43: the submit fetch rejects; nothing catches it.
SubmitRejected ==
  /\ UNCHANGED << ctlVars, bounded >>
  /\ pc = "submit"
  /\ pc' = "threw"
  /\ UNCHANGED << request, requestBody, calls, imageRes, submitRes, pollUrl,
                  pollRes, pollLog, response >>

\* lines 86-90: the 500 ms timer fired; issue the next poll.
TimerFiredWithin(polls) ==
  /\ UNCHANGED << ctlVars, bounded >>
  /\ pc = "wait"
  /\ Len(CallsOf("poll")) < polls
  /\ calls' = Append(calls, PollCall(pollUrl, request))
  /\ pc' = "poll"
  /\ UNCHANGED << request, requestBody, imageRes, submitRes, pollUrl, pollRes,
                  pollLog, response >>

TimerFired == TimerFiredWithin(MaxPolls)

\* lines 92-124: a poll answer arrived.
PollResponded(res) ==
  /\ UNCHANGED << ctlVars, bounded >>
  /\ pc = "poll"
  /\ pollRes' = res
  /\ pollLog' = Append(pollLog, IF res.ok /\ res.body.parses
                                  THEN Template(res.body.status)
                                  ELSE "<none>")
  /\ IF ~res.ok
       THEN LET e == ErrorMessage(res, PollGeneric(res)) IN
            IF e.threw
              THEN pc' = "threw" /\ UNCHANGED response
              ELSE /\ pc' = "done"
                   /\ response' = ErrorResponse(res, e.message)
     ELSE IF ~res.body.parses
       THEN pc' = "threw" /\ UNCHANGED response
     ELSE IF PollOutcome(res.body) = "success"
       THEN /\ pc' = "done"
            /\ response' = UrlResponse(res.body.result_sample)
     ELSE IF PollOutcome(res.body) = "continue"
       THEN pc' = "wait" /\ UNCHANGED response
     ELSE /\ pc' = "done"
          /\ response' = FailureResponse(res.body)
  /\ UNCHANGED << request, requestBody, calls, imageRes, submitRes, pollUrl >>

\* line 88: a poll fetch rejects; nothing catches it.
PollRejected ==
  /\ UNCHANGED << ctlVars, bounded >>
  /\ pc = "poll"
  /\ pc' = "threw"
  /\ UNCHANGED << request, requestBody, calls, imageRes, submitRes, pollUrl,
                  pollRes, pollLog, response >>

Next ==
  \/ \E req \in Requests : POST(req)
  \/ \E res \in ImageResponses : ImageFetched(res)
  \/ ImageFetchRejected
  \/ \E res \in SubmitResponses : SubmitResponded(res)
  \/ SubmitRejected
  \/ TimerFired
  \/ \E res \in PollResponses : PollResponded(res)
  \/ PollRejected


(* ------------------------------------------------------------------ *)
(* The ImageGenerator component: values                                *)
(* ------------------------------------------------------------------ *)

\* How many generations are started, how many images are dropped, and how
\* many event handlers run before React renders their updates.
MaxAttempts == 2
MaxDrops == 2
MaxBatch == 2

\* How many images are dropped in a session that also generates.
MaxDropsWithForm == 1

\* How many generations are started in a session with MaxDrops drops.
MaxAttemptsWithDrops == 1

\* How many drops carry no image, and how far the drag counter moves away
\* from zero.
MaxIgnoredDrops == 1
MaxNesting == 2

\* JavaScript null, and the value of timerIntervalRef before any
\* setInterval (interval ids are positive).
NULL == "<null>"
NoInterval == 0

\* if (v) for a string | null.
IsSet(v) == v # NULL /\ Truthy(v)

\* The prompt is kept as its characters so that trim() does something.
Whitespace == { " " }

RECURSIVE trimStart(_)
trimStart(s) ==
  IF s # << >> /\ Head(s) \in Whitespace THEN trimStart(Tail(s)) ELSE s

RECURSIVE trimEnd(_)
trimEnd(s) ==
  IF s # << >> /\ s[Len(s)] \in Whitespace
    THEN trimEnd(SubSeq(s, 1, Len(s) - 1))
    ELSE s

trim_StartOnly(s) == trimStart(s)

\* prompt.trim()
trim(s) == trimEnd(trimStart(s))

\* The characters as one string.
RECURSIVE Str(_)
Str(s) == IF s = << >> THEN "" ELSE Head(s) \o Str(Tail(s))

\* What the user types or selects.
Prompts == { << " " >>, << " ", "c", "a", "t", " " >> }
ApiKeys == { "", "test-key" }
ModelVariants == { "9b", "4b" }

\* What is dropped on the page: nothing, a text file, or an image.
Files ==
  { [ present |-> FALSE, type |-> "" ],
    [ present |-> TRUE, type |-> "text/plain" ],
    [ present |-> TRUE, type |-> "image/png" ] }

\* file.type.startsWith('image/')
IsImageType(type) == type \in { "image/png" }

IsImageFile_AnyFile(file) == file.present

\* line 193: file && file.type.startsWith('image/')
IsImageFile(file) == file.present /\ IsImageType(file.type)

ImageFiles == { file \in Files : IsImageFile(file) }

\* URL.createObjectURL(file) for the n-th drop, and the base64 part of
\* its data URL.
BlobUrl(n) == "blob:" \o ToString(n)
FileBase64(n) == "b64-" \o ToString(n)

\* url.startsWith('blob:')
IsBlobUrl(url) ==
  url \in { BlobUrl(n) : n \in 1..(MaxDrops + MaxIgnoredDrops + 1) }

\* The image URL the proxy returns for the n-th request.
ResultUrl(n) == "https://x/out" \o ToString(n) \o ".png"

\* genTime readings: the `${elapsed}s` set by the interval callback and
\* the one set when the proxy call has completed.
TickTime == "0.1s"
FinalTime == "0.2s"

\* What fetch('/api/generate') can come back with for the n-th request.
ProxyAnswer(rejected, ok, status, parses, url, error) ==
  [ rejected |-> rejected, ok |-> ok, status |-> status, parses |-> parses,
    url |-> url, error |-> error ]

ProxyAnswers(n) ==
  { ProxyAnswer(TRUE, FALSE, "0", FALSE, UNDEFINED, "Network error"),
    ProxyAnswer(FALSE, TRUE, "200", TRUE, ResultUrl(n), UNDEFINED),
    ProxyAnswer(FALSE, TRUE, "200", TRUE, UNDEFINED, UNDEFINED),
    ProxyAnswer(FALSE, TRUE, "200", FALSE, UNDEFINED, UNDEFINED),
    ProxyAnswer(FALSE, FALSE, "500", TRUE, UNDEFINED, "Generation failed"),
    ProxyAnswer(FALSE, FALSE, "400", TRUE, UNDEFINED, UNDEFINED) }

\* lines 9-20: the useState initial values.
InitialState ==
  [ apiKey |-> "", prompt |-> << >>, modelVariant |-> "9b",
    isGenerating |-> FALSE, editMode |-> FALSE, currentImageUrl |-> NULL,
    previousImageUrl |-> NULL, showCurrentImage |-> FALSE, genTime |-> "",
    isDragOver |-> FALSE, showLoading |-> FALSE, loadingComplete |-> FALSE ]

\* lines 22-24: the useRef initial values.
InitialRefs ==
  [ referenceImageBase64Ref |-> NULL, dragCounterRef |-> 0,
    timerIntervalRef |-> NoInterval ]

\* The image state a generation or a drop finds when it starts.
ImageState(st, rf) ==
  [ currentImageUrl |-> st.currentImageUrl,
    previousImageUrl |-> st.previousImageUrl,
    editMode |-> st.editMode,
    referenceImageBase64Ref |-> rf.referenceImageBase64Ref ]

\* One handleGenerate invocation: where it is suspended ("nokey": in
\* generateImage after the alert, "fetch", "preload", or "done"), the
\* currentImageUrl its closure holds, the interval it started, which
\* fetch it issued (0: none), the URL it got, how it ended ("" while running, "nokey", "nourl", "success",
\* "failed"), and what it found when it started.
Attempt(apc, closureUrl, interval, fetchNo, imageUrl, outcome, before) ==
  [ pc |-> apc, currentImageUrl |-> closureUrl, interval |-> interval,
    request |-> fetchNo, imageUrl |-> imageUrl, outcome |-> outcome,
    before |-> before, stops |-> 0 ]

\* lines 58-70: the fetch('/api/generate') body.
GenerateBody(prompt, apiKey, variant, image, imageUrl) ==
  [ prompt |-> prompt, apiKey |-> apiKey, variant |-> variant,
    image |-> image, imageUrl |-> imageUrl ]

ReferenceKind_IgnoresEditMode(c) ==
  IF IsSet(c.currentImageUrl)
    THEN IF IsBlobUrl(c.currentImageUrl) THEN "image" ELSE "imageUrl"
    ELSE "none"

\* lines 64-70: which reference the request carries.
ReferenceKind(c) ==
  IF c.editMode /\ IsSet(c.currentImageUrl)
    THEN IF IsBlobUrl(c.currentImageUrl) THEN "image" ELSE "imageUrl"
    ELSE "none"

\* lines 58-70: the request built from the closure c and the payload ref.
RequestFor(c, trimmedPrompt, rf) ==
  GenerateBody(Str(trimmedPrompt), c.apiKey, c.modelVariant,
               IF ReferenceKind(c) = "image"
                 THEN rf.referenceImageBase64Ref ELSE UNDEFINED,
               IF ReferenceKind(c) = "imageUrl"
                 THEN c.currentImageUrl ELSE UNDEFINED)

\* lines 93-94: the guard of handleGenerate, on the closure c.
Ignored(c) == trim(c.prompt) = << >> \/ c.isGenerating

NoKeyAlert == "Please enter your BFL API key"

\* lines 72-87: what generateImage throws for the answer a, "" if nothing.
Thrown(a) ==
  IF a.rejected THEN a.error
  ELSE IF ~a.parses THEN "Request failed (" \o a.status \o ")"
  ELSE IF ~a.ok THEN Or(a.error, "Request failed (" \o a.status \o ")")
  ELSE ""

\* lines 92-155, deps on line 155: what the handlers read of the state.
Closure(st) ==
  [ prompt |-> st.prompt, isGenerating |-> st.isGenerating,
    apiKey |-> st.apiKey, modelVariant |-> st.modelVariant,
    editMode |-> st.editMode, currentImageUrl |-> st.currentImageUrl ]

\* Updates made in an event handler are rendered before any timer, I/O or
\* animation callback runs; updates made in such a callback wait for the
\* scheduler.
AfterEvent(st) == IF st # state THEN batch + 1 ELSE batch

(* ------------------------------------------------------------------ *)
(* The ImageGenerator component: one action per handler or continuation *)
(* ------------------------------------------------------------------ *)

\* lines 9-24: the component as mounted.
CtlInit ==
  /\ state = InitialState
  /\ rendered = Closure(InitialState)
  /\ batch = 0
  /\ refs = InitialRefs
  /\ attempts = << >>
  /\ drops = << >>
  /\ intervals = { }
  /\ fetches = << >>
  /\ alerts = << >>
  /\ frames = FALSE

\* React renders: the handlers now close over the current values.
Render ==
  /\ batch > 0 \/ rendered # Closure(state)
  /\ rendered' = Closure(state)
  /\ batch' = 0
  /\ UNCHANGED << state, refs, attempts, drops, intervals, fetches, alerts,
                  frames >>
  /\ UNCHANGED << vars, bounded >>

\* line 350: the prompt input's onChange.
setPrompt(p) ==
  /\ state' = [state EXCEPT !.prompt = p]
  /\ state' # state
  /\ batch < MaxBatch
  /\ batch' = batch + 1
  /\ UNCHANGED << rendered, refs, attempts, drops, intervals, fetches,
                  alerts, frames >>
  /\ UNCHANGED << vars, bounded >>

\* lines 28-38: setApiKey, by the key input's onChange or by the mount
\* effect when a key is saved under 'bfl_api_key'.
handleApiKeyChange(k) ==
  /\ state' = [state EXCEPT !.apiKey = k]
  /\ state' # state
  /\ batch < MaxBatch
  /\ batch' = batch + 1
  /\ UNCHANGED << rendered, refs, attempts, drops, intervals, fetches,
                  alerts, frames >>
  /\ UNCHANGED << vars, bounded >>

\* line 269: the variant select's onChange.  The variant only travels into
\* the request body (RequestFor); CtlNext leaves the selection out, FormNext
\* has it.
setModelVariant(v) ==
  /\ state' = [state EXCEPT !.modelVariant = v]
  /\ state' # state
  /\ batch < MaxBatch
  /\ batch' = batch + 1
  /\ UNCHANGED << rendered, refs, attempts, drops, intervals, fetches,
                  alerts, frames >>
  /\ UNCHANGED << vars, bounded >>

toggleEditMode_WithoutImage ==
  /\ state' = [state EXCEPT !.editMode = ~rendered.editMode]
  /\ state' # state
  /\ batch < MaxBatch
  /\ batch' = batch + 1
  /\ UNCHANGED << rendered, refs, attempts, drops, intervals, fetches,
                  alerts, frames >>
  /\ UNCHANGED << vars, bounded >>

\* line 336: the edit toggle's onClick, hasImage && setEditMode(!editMode).
toggleEditMode ==
  /\ rendered.currentImageUrl # NULL
  /\ state' = [state EXCEPT !.editMode = ~rendered.editMode]
  /\ state' # state
  /\ batch < MaxBatch
  /\ batch' = batch + 1
  /\ UNCHANGED << rendered, refs, attempts, drops, intervals, fetches,
                  alerts, frames >>
  /\ UNCHANGED << vars, bounded >>

\* lines 96-101: handleGenerate got past its guard.
Started(st) ==
  [st EXCEPT !.isGenerating = TRUE, !.showLoading = TRUE,
             !.loadingComplete = FALSE, !.genTime = "0.0s"]

\* lines 114-117: the proxy call has completed.
Completed(st) == [st EXCEPT !.genTime = FinalTime, !.loadingComplete = TRUE]

Promoted_KeepsPrevious(st, closureUrl, imageUrl) ==
  [st EXCEPT !.currentImageUrl = imageUrl, !.showLoading = FALSE,
             !.loadingComplete = FALSE]

\* lines 127-135: the preloaded image becomes the current one; the closure's
\* currentImageUrl, if any, becomes the previous one.
Promoted(st, closureUrl, imageUrl) ==
  [ (IF IsSet(closureUrl)
       THEN [st EXCEPT !.previousImageUrl = closureUrl,
                       !.showCurrentImage = FALSE]
       ELSE st)
    EXCEPT !.currentImageUrl = imageUrl, !.showLoading = FALSE,
           !.loadingComplete = FALSE ]

Caught_KeepsReadout(st) ==
  [st EXCEPT !.showLoading = FALSE, !.loadingComplete = FALSE]

Caught_ForgetsImage(st) ==
  [st EXCEPT !.genTime = "", !.showLoading = FALSE,
             !.loadingComplete = FALSE, !.currentImageUrl = NULL]

\* lines 147-151: the catch block's updates.
Caught(st) ==
  [st EXCEPT !.genTime = "", !.showLoading = FALSE,
             !.loadingComplete = FALSE]

Finally_StaysGenerating(st) == st

\* line 153: the finally block.
Finally(st) == [st EXCEPT !.isGenerating = FALSE]

\* lines 111-113 and 144-146: clearInterval(timerIntervalRef.current).
Cleared(running, rf) ==
  IF rf.timerIntervalRef # NoInterval
    THEN running \ { rf.timerIntervalRef }
    ELSE running

\* History: how many clearInterval calls an attempt has made, after one
\* more pass through lines 111-113 or 144-146.
StopCalls(n, rf) == IF rf.timerIntervalRef # NoInterval THEN n + 1 ELSE n

Ingested_KeepsEditMode(st, closureUrl, url) ==
  [ (IF IsSet(closureUrl)
       THEN [st EXCEPT !.previousImageUrl = closureUrl,
                       !.showCurrentImage = FALSE]
       ELSE st)
    EXCEPT !.currentImageUrl = url ]

\* lines 197-203: the dropped image becomes the current one, in edit mode.
Ingested(st, closureUrl, url) ==
  [ (IF IsSet(closureUrl)
       THEN [st EXCEPT !.previousImageUrl = closureUrl,
                       !.showCurrentImage = FALSE]
       ELSE st)
    EXCEPT !.currentImageUrl = url, !.editMode = TRUE ]

\* lines 158-163, 92-109 and 52-76: Enter in the prompt input runs
\* handleGenerate as the last render created it, up to its first await.
handleGenerate ==
  /\ batch < MaxBatch
  /\ IF Ignored(rendered)
       THEN UNCHANGED << state, batch, refs, attempts, intervals, fetches,
                         alerts >>
       ELSE LET id == Len(attempts) + 1
                before == ImageState(state, refs)
            IN /\ Len(attempts) < MaxAttempts
               /\ state' = Started(state)
               /\ batch' = AfterEvent(state')
               /\ refs' = [refs EXCEPT !.timerIntervalRef = id]
               /\ intervals' = intervals \cup { id }
               /\ IF ~Truthy(rendered.apiKey)
                    THEN /\ alerts' = Append(alerts, NoKeyAlert)
                         /\ attempts' =
                              Append(attempts,
                                     Attempt("nokey", rendered.currentImageUrl,
                                             id, 0, UNDEFINED, "", before))
                         /\ UNCHANGED fetches
                    ELSE /\ fetches' =
                              Append(fetches,
                                     RequestFor(rendered, trim(rendered.prompt),
                                                refs))
                         /\ attempts' =
                              Append(attempts,
                                     Attempt("fetch", rendered.currentImageUrl,
                                             id, Len(fetches) + 1, UNDEFINED,
                                             "", before))
                         /\ UNCHANGED alerts
  /\ UNCHANGED << rendered, drops, frames >>
  /\ UNCHANGED << vars, bounded >>

\* lines 53-56 and 111-119, 152-154: generateImage returned null because
\* there is no key; handleGenerate goes on as after a completed call.
generateImageReturnedNull(i) ==
  /\ attempts[i].pc = "nokey"
  /\ batch = 0
  /\ intervals' = Cleared(intervals, refs)
  /\ state' = Finally(Completed(state))
  /\ attempts' = [attempts EXCEPT ![i].pc = "done", ![i].outcome = "nokey",
                                  ![i].stops = StopCalls(@, refs)]
  /\ UNCHANGED << rendered, batch, refs, drops, fetches, alerts, frames >>
  /\ UNCHANGED << vars, bounded >>

\* lines 72-89 and 109-125, 143-154: the proxy call settled.
generateImageSettled(i, a) ==
  /\ attempts[i].pc = "fetch"
  /\ batch = 0
  /\ intervals' = Cleared(intervals, refs)
  /\ IF Thrown(a) # ""
       THEN /\ state' = Finally(Caught(state))
            /\ alerts' = Append(alerts, Thrown(a))
            /\ attempts' = [attempts EXCEPT ![i].pc = "done",
                                            ![i].outcome = "failed",
                                            ![i].stops = StopCalls(@, refs)]
     ELSE IF Truthy(a.url)
       THEN /\ state' = Completed(state)
            /\ attempts' = [attempts EXCEPT ![i].pc = "preload",
                                            ![i].imageUrl = a.url,
                                            ![i].stops = StopCalls(@, refs)]
            /\ UNCHANGED alerts
     ELSE /\ state' = Finally(Completed(state))
          /\ attempts' = [attempts EXCEPT ![i].pc = "done",
                                          ![i].outcome = "nourl",
                                          ![i].stops = StopCalls(@, refs)]
          /\ UNCHANGED alerts
  /\ UNCHANGED << rendered, batch, refs, drops, fetches, frames >>
  /\ UNCHANGED << vars, bounded >>

\* lines 122 and 127-141, 152-154: the preloaded image fired onload.
imageLoaded(i) ==
  /\ attempts[i].pc = "preload"
  /\ batch = 0
  /\ state' = Finally(Promoted(state, attempts[i].currentImageUrl,
                               attempts[i].imageUrl))
  /\ frames' = TRUE
  /\ attempts' = [attempts EXCEPT ![i].pc = "done", ![i].outcome = "success"]
  /\ UNCHANGED << rendered, batch, refs, drops, intervals, fetches, alerts >>
  /\ UNCHANGED << vars, bounded >>

\* lines 123 and 143-154: the preloaded image fired onerror; what is
\* thrown is an Event, not an Error.
imageFailed(i) ==
  /\ attempts[i].pc = "preload"
  /\ batch = 0
  /\ intervals' = Cleared(intervals, refs)
  /\ state' = Finally(Caught(state))
  /\ alerts' = Append(alerts, "Generation failed")
  /\ attempts' = [attempts EXCEPT ![i].pc = "done", ![i].outcome = "failed",
                                  ![i].stops = StopCalls(@, refs)]
  /\ UNCHANGED << rendered, batch, refs, drops, fetches, frames >>
  /\ UNCHANGED << vars, bounded >>

\* lines 103-106: a running interval fires.
timerTick(id) ==
  /\ id \in intervals
  /\ batch = 0
  /\ state' = [state EXCEPT !.genTime = TickTime]
  /\ UNCHANGED << rendered, batch, refs, attempts, drops, intervals,
                  fetches, alerts, frames >>
  /\ UNCHANGED << vars, bounded >>

\* The handleDrop invocations that found an image, and those that did not.
ImageDrops == { j \in DOMAIN drops : drops[j].pc # "ignored" }
IgnoredDrops == { j \in DOMAIN drops : drops[j].pc = "ignored" }

\* lines 165-170: something is dragged onto the page or onto an element
\* inside it.
handleDragEnter ==
  /\ batch < MaxBatch
  /\ refs.dragCounterRef < MaxNesting
  /\ refs' = [refs EXCEPT !.dragCounterRef = @ + 1]
  /\ state' = [state EXCEPT !.isDragOver = TRUE]
  /\ batch' = AfterEvent(state')
  /\ UNCHANGED << rendered, attempts, drops, intervals, fetches, alerts,
                  frames >>
  /\ UNCHANGED << vars, bounded >>

\* lines 177-184: the drag leaves the page or an element inside it.
handleDragLeave ==
  /\ batch < MaxBatch
  /\ refs.dragCounterRef > -MaxNesting
  /\ refs' = [refs EXCEPT !.dragCounterRef = @ - 1]
  /\ state' = IF refs'.dragCounterRef = 0
                THEN [state EXCEPT !.isDragOver = FALSE]
                ELSE state
  /\ batch' = AfterEvent(state')
  /\ UNCHANGED << rendered, attempts, drops, intervals, fetches, alerts,
                  frames >>
  /\ UNCHANGED << vars, bounded >>

\* lines 186-194: something is dropped on the page; an image starts being
\* read, anything else ends the handler ("ignored").
handleDrop(file) ==
  /\ batch < MaxBatch
  /\ refs' = [refs EXCEPT !.dragCounterRef = 0]
  /\ state' = [state EXCEPT !.isDragOver = FALSE]
  /\ batch' = AfterEvent(state')
  /\ IF IsImageFile(file)
       THEN /\ Cardinality(ImageDrops) < MaxDrops
            /\ drops' = Append(drops,
                               [ pc |-> "reading",
                                 currentImageUrl |-> rendered.currentImageUrl ])
       ELSE /\ Cardinality(IgnoredDrops) < MaxIgnoredDrops
            /\ drops' = Append(drops,
                               [ pc |-> "ignored",
                                 currentImageUrl |-> rendered.currentImageUrl ])
  /\ UNCHANGED << rendered, attempts, intervals, fetches, alerts, frames >>
  /\ UNCHANGED << vars, bounded >>

\* lines 40-46 and 194-210: the FileReader finished reading.
fileRead(j) ==
  /\ drops[j].pc = "reading"
  /\ batch = 0
  /\ drops' = [drops EXCEPT ![j].pc = "done"]
  /\ refs' = [refs EXCEPT !.referenceImageBase64Ref = FileBase64(j)]
  /\ state' = Ingested(state, drops[j].currentImageUrl, BlobUrl(j))
  /\ frames' = TRUE
  /\ UNCHANGED << rendered, batch, attempts, intervals, fetches, alerts >>
  /\ UNCHANGED << vars, bounded >>

\* line 47: the FileReader failed; handleDrop's promise rejects and
\* nothing else happens.
fileReadFailed(j) ==
  /\ drops[j].pc = "reading"
  /\ batch = 0
  /\ drops' = [drops EXCEPT ![j].pc = "done"]
  /\ UNCHANGED << state, rendered, batch, refs, attempts, intervals, fetches,
                  alerts, frames >>
  /\ UNCHANGED << vars, bounded >>

\* lines 137-141 and 205-209: the second animation frame; every callback
\* waiting for it does the same update.
animationFrame ==
  /\ frames
  /\ batch = 0
  /\ frames' = FALSE
  /\ state' = [state EXCEPT !.showCurrentImage = TRUE]
  /\ UNCHANGED << rendered, batch, refs, attempts, drops, intervals,
                  fetches, alerts >>
  /\ UNCHANGED << vars, bounded >>

CtlNext ==
  \/ Render
  \/ \E p \in Prompts : setPrompt(p)
  \/ \E k \in ApiKeys : handleApiKeyChange(k)
  \/ toggleEditMode
  \/ handleGenerate
  \/ \E i \in DOMAIN attempts : generateImageReturnedNull(i)
  \/ \E i \in DOMAIN attempts :
       \E a \in ProxyAnswers(attempts[i].request) : generateImageSettled(i, a)
  \/ \E i \in DOMAIN attempts : imageLoaded(i)
  \/ \E i \in DOMAIN attempts : imageFailed(i)
  \/ \E id \in intervals : timerTick(id)
  \/ /\ Cardinality(ImageDrops) < MaxDropsWithForm
     /\ \E file \in ImageFiles : handleDrop(file)
  \/ \E j \in DOMAIN drops : fileRead(j)
  \/ \E j \in DOMAIN drops : fileReadFailed(j)
  \/ animationFrame

\* Dragging and dropping, without the form.
DragNext ==
  \/ Render
  \/ toggleEditMode
  \/ handleDragEnter
  \/ handleDragLeave
  \/ \E file \in Files : handleDrop(file)
  \/ \E j \in DOMAIN drops : fileRead(j)
  \/ \E j \in DOMAIN drops : fileReadFailed(j)
  \/ animationFrame

(* ------------------------------------------------------------------ *)
(* The bounded variant: handleGenerate of src/test/api/generate.test.ts *)
(* ------------------------------------------------------------------ *)
\* line 95
maxIterations == 10

\* What the bounded variant hands back when its loop runs out.
TimeoutResult == Response(UNDEFINED, "Polling timeout", 500)

LoopContinues_OneMore(iterations) == iterations <= maxIterations

LoopContinues_StopsEarly(iterations) == iterations < maxIterations - 1

\* line 97: the loop condition.
LoopContinues(iterations) == iterations < maxIterations

BoundedCallsOf(kind) == SelectSeq(bounded.calls, LAMBDA c : c.kind = kind)

BoundedInit ==
  bounded = [ pc |-> "idle", request |-> NoRequest, requestBody |-> NoBody,
              calls |-> << >>, imageRes |-> NoImageResponse,
              submitRes |-> NoResponse, pollUrl |-> UNDEFINED,
              pollRes |-> NoResponse, pollLog |-> << >>, iterations |-> 0,
              result |-> NoReturn ]

\* lines 40-58: entry, validation, request body, up to the first await.
testHandleGenerate(body) ==
  /\ bounded.pc = "idle"
  /\ bounded' =
       IF MissingInput(body)
         THEN [bounded EXCEPT !.pc = "done", !.request = body,
                              !.result = ValidationResponse]
       ELSE IF ImageSource(body) = "url"
         THEN [bounded EXCEPT !.pc = "urlToBase64", !.request = body,
                              !.requestBody = BaseBody(body),
                              !.calls = Append(@, ImageCall(body.imageUrl))]
       ELSE LET rb == IF ImageSource(body) = "inline"
                        THEN [BaseBody(body) EXCEPT !.input_image = body.image]
                        ELSE BaseBody(body) IN
            [bounded EXCEPT !.pc = "submit", !.request = body,
                            !.requestBody = rb,
                            !.calls = Append(@, SubmitCall(body, rb))]
  /\ UNCHANGED << vars, ctlVars >>

\* lines 15-23 and 56-67: the reference image arrived; encode it and submit.
testImageFetched(res) ==
  /\ bounded.pc = "urlToBase64"
  /\ LET rb == [bounded.requestBody EXCEPT !.input_image = btoa(res.bytes)] IN
     bounded' = [bounded EXCEPT !.pc = "submit", !.imageRes = res,
                                !.requestBody = rb,
                                !.calls = Append(@, SubmitCall(bounded.request, rb))]
  /\ UNCHANGED << vars, ctlVars >>

\* line 16: fetch(url) rejects; nothing catches it.
testImageFetchRejected ==
  /\ bounded.pc = "urlToBase64"
  /\ bounded' = [bounded EXCEPT !.pc = "threw"]
  /\ UNCHANGED << vars, ctlVars >>

\* lines 93-98: entering the loop, or leaving it when the condition fails.
IntoLoop(b) ==
  IF LoopContinues(b.iterations)
    THEN [b EXCEPT !.pc = "wait", !.iterations = @ + 1]
    ELSE [b EXCEPT !.pc = "done", !.result = TimeoutResult]

\* lines 69-98: the submit answer arrived.
testSubmitResponded(res) ==
  /\ bounded.pc = "submit"
  /\ LET b == [bounded EXCEPT !.submitRes = res]
         e == ErrorMessage(res, SubmitGeneric(res)) IN
     bounded' =
       IF ~res.ok
         THEN IF e.threw
                THEN [b EXCEPT !.pc = "threw"]
                ELSE [b EXCEPT !.pc = "done",
                               !.result = Response(UNDEFINED, e.message, res.status)]
       ELSE IF ~res.body.parses
         THEN [b EXCEPT !.pc = "threw"]
       ELSE IF SubmitOutcome(res.body) = "direct"
         THEN [b EXCEPT !.pc = "done",
                        !.result = Response(res.body.sample, UNDEFINED, 200)]
       ELSE IF SubmitOutcome(res.body) = "nohandle"
         THEN [b EXCEPT !.pc = "done", !.pollUrl = res.body.polling_url,
                        !.result = NoPollingUrlResponse]
       ELSE IntoLoop([b EXCEPT !.pollUrl = res.body.polling_url])
  /\ UNCHANGED << vars, ctlVars >>

\* line 60: the submit fetch rejects; nothing catches it.
testSubmitRejected ==
  /\ bounded.pc = "submit"
  /\ bounded' = [bounded EXCEPT !.pc = "threw"]
  /\ UNCHANGED << vars, ctlVars >>

\* lines 99-103: the 10 ms timer fired; issue the next poll.
testTimerFired ==
  /\ bounded.pc = "wait"
  /\ bounded' = [bounded EXCEPT !.pc = "poll",
                                !.calls = Append(@, PollCall(bounded.pollUrl,
                                                             bounded.request))]
  /\ UNCHANGED << vars, ctlVars >>

\* lines 105-130: a poll answer arrived.
testPollResponded(res) ==
  /\ bounded.pc = "poll"
  /\ LET b == [bounded EXCEPT !.pollRes = res,
                              !.pollLog = Append(@, IF res.ok /\ res.body.parses
                                                      THEN Template(res.body.status)
                                                      ELSE "<none>")]
         e == ErrorMessage(res, PollGeneric(res)) IN
     bounded' =
       IF ~res.ok
         THEN IF e.threw
                THEN [b EXCEPT !.pc = "threw"]
                ELSE [b EXCEPT !.pc = "done",
                               !.result = Response(UNDEFINED, e.message, res.status)]
       ELSE IF ~res.body.parses
         THEN [b EXCEPT !.pc = "threw"]
       ELSE IF PollOutcome(res.body) = "success"
         THEN [b EXCEPT !.pc = "done",
                        !.result = Response(res.body.result_sample, UNDEFINED, 200)]
       ELSE IF PollOutcome(res.body) = "continue"
         THEN IntoLoop(b)
       ELSE [b EXCEPT !.pc = "done",
                      !.result = Response(UNDEFINED, FailureResponse(res.body).error, 500)]
  /\ UNCHANGED << vars, ctlVars >>

\* line 101: a poll fetch rejects; nothing catches it.
testPollRejected ==
  /\ bounded.pc = "poll"
  /\ bounded' = [bounded EXCEPT !.pc = "threw"]
  /\ UNCHANGED << vars, ctlVars >>

BoundedNext ==
  \/ \E body \in Requests : testHandleGenerate(body)
  \/ \E res \in ImageResponses : testImageFetched(res)
  \/ testImageFetchRejected
  \/ \E res \in SubmitResponses : testSubmitResponded(res)
  \/ testSubmitRejected
  \/ testTimerFired
  \/ \E res \in PollResponses : testPollResponded(res)
  \/ testPollRejected

(* ------------------------------------------------------------------ *)
(* The specifications                                                  *)
(* ------------------------------------------------------------------ *)

\* The handler not yet invoked, the component just mounted.
Start == Init /\ CtlInit /\ BoundedInit

\* The form and the generation it starts, with the variant selection and
\* without drops.
FormNext ==
  \/ Render
  \/ \E p \in Prompts : setPrompt(p)
  \/ \E k \in ApiKeys : handleApiKeyChange(k)
  \/ \E v \in ModelVariants : setModelVariant(v)
  \/ toggleEditMode
  \/ handleGenerate
  \/ \E i \in DOMAIN attempts : generateImageReturnedNull(i)
  \/ \E i \in DOMAIN attempts :
       \E a \in ProxyAnswers(attempts[i].request) : generateImageSettled(i, a)
  \/ \E i \in DOMAIN attempts : imageLoaded(i)
  \/ \E i \in DOMAIN attempts : imageFailed(i)
  \/ \E id \in intervals : timerTick(id)
  \/ animationFrame

\* The handler alone, the component without the variant selection and
\* the drag events (a drop without an image changes nothing there), the
\* form, and drag and drop.
Spec == Start /\ [][Next]_allVars

\* The proxy with the scheduling of its runtime: a timer that was set fires
\* (line 86), and a fetch that was started settles, with an answer or a
\* rejection (lines 7, 43, 88).
Settles ==
  \/ \E res \in ImageResponses : ImageFetched(res)
  \/ ImageFetchRejected
  \/ \E res \in SubmitResponses : SubmitResponded(res)
  \/ SubmitRejected
  \/ \E res \in PollResponses : PollResponded(res)
  \/ PollRejected

FairSpec ==
  /\ Spec
  /\ WF_allVars(TimerFired)
  /\ WF_allVars(Settles)

CtlSpec == Start /\ [][CtlNext]_allVars

FormSpec == Start /\ [][FormNext]_allVars

DragSpec == Start /\ [][DragNext]_allVars

\* Several drops around a generation, without the readout's ticks.
PayloadNext ==
  \/ Render
  \/ \E p \in Prompts : setPrompt(p)
  \/ \E k \in ApiKeys : handleApiKeyChange(k)
  \/ toggleEditMode
  \/ Len(attempts) < MaxAttemptsWithDrops /\ handleGenerate
  \/ \E i \in DOMAIN attempts : generateImageReturnedNull(i)
  \/ \E i \in DOMAIN attempts :
       \E a \in ProxyAnswers(attempts[i].request) : generateImageSettled(i, a)
  \/ \E i \in DOMAIN attempts : imageLoaded(i)
  \/ \E i \in DOMAIN attempts : imageFailed(i)
  \/ \E file \in ImageFiles : handleDrop(file)
  \/ \E j \in DOMAIN drops : fileRead(j)
  \/ \E j \in DOMAIN drops : fileReadFailed(j)
  \/ animationFrame

PayloadSpec == Start /\ [][PayloadNext]_allVars

\* The handler and its bounded variant called with the same request and
\* given the same answers: the variant is behind while the handler has
\* received an answer, or made a call, that the variant has not, and the
\* handler goes on when the variant has caught up.
Behind ==
  \/ bounded.pc = "idle" /\ pc # "idle"
  \/ bounded.pc = "urlToBase64" /\ pc # "urlToBase64"
  \/ bounded.pc = "submit" /\ pc # "submit"
  \/ bounded.pc = "wait" /\ Len(BoundedCallsOf("poll")) < Len(CallsOf("poll"))
  \/ bounded.pc = "poll" /\ Len(bounded.pollLog) < Len(pollLog)
  \/ bounded.pc = "poll" /\ Len(bounded.pollLog) = Len(pollLog) /\ pc = "threw"

Follows ==
  /\ Behind
  /\ \/ bounded.pc = "idle" /\ testHandleGenerate(request)
     \/ /\ bounded.pc = "urlToBase64"
        /\ IF imageRes # NoImageResponse
             THEN testImageFetched(imageRes)
             ELSE testImageFetchRejected
     \/ /\ bounded.pc = "submit"
        /\ IF submitRes # NoResponse
             THEN testSubmitResponded(submitRes)
             ELSE testSubmitRejected
     \/ bounded.pc = "wait" /\ testTimerFired
     \/ /\ bounded.pc = "poll"
        /\ IF Len(bounded.pollLog) < Len(pollLog)
             THEN testPollResponded(pollRes)
             ELSE testPollRejected

\* The requests both are called with.
ComparedRequests ==
  { req \in Requests : /\ req.variant \in { UNDEFINED, "4b" }
                       /\ req.image # ""
                       /\ req.prompt # ""
                       /\ req.apiKey # UNDEFINED }

PairNext ==
  \/ ~Behind /\ \E req \in ComparedRequests : POST(req)
  \/ ~Behind /\ \E res \in ImageResponses : ImageFetched(res)
  \/ ~Behind /\ ImageFetchRejected
  \/ ~Behind /\ \E res \in SubmitResponses : SubmitResponded(res)
  \/ ~Behind /\ SubmitRejected
  \/ ~Behind /\ TimerFiredWithin(MaxPollsCompared)
  \/ ~Behind /\ \E res \in PollResponses : PollResponded(res)
  \/ ~Behind /\ PollRejected
  \/ Follows

PairSpec == Start /\ [][PairNext]_allVars

\* The bounded variant alone.
BoundedSpec == Start /\ [][BoundedNext]_allVars

(* ------------------------------------------------------------------ *)
(* Observations used by the properties                                 *)
(* ------------------------------------------------------------------ *)

Returned == pc = "done"
Finished == pc \in {"done", "threw"}
SubmitAnswered == submitRes # NoResponse
PollAnswered == pollLog # << >>
LastPollStatus == pollLog[Len(pollLog)]
PendingAnswers == Len(SelectSeq(pollLog, LAMBDA st : st = "Pending"))
IsUrlResult(r, url) == r.url = url /\ r.error = UNDEFINED /\ r.status = 200
IsErrorResult(r) == r.url = UNDEFINED /\ Truthy(r.error)

(* ------------------------------------------------------------------ *)
(* C1                                                                  *)
(* ------------------------------------------------------------------ *)

\* C1: a request whose prompt or apiKey is missing or empty is answered with
\* an error result of status 400, and no fetch of any kind is issued for it.
C1_ValidationFailsFast ==
  (pc # "idle" /\ (request.prompt \in {UNDEFINED, ""}
                   \/ request.apiKey \in {UNDEFINED, ""}))
    => /\ Returned
       /\ IsErrorResult(response)
       /\ response.status = 400
       /\ calls = << >>

C1_Witness ==
  /\ Returned
  /\ request.prompt = "a cat" /\ request.apiKey = ""
  /\ request.imageUrl = "https://x/ref.png"
  /\ response.status = 400

(* ------------------------------------------------------------------ *)
(* C2                                                                  *)
(* ------------------------------------------------------------------ *)

\* C2: polling goes on exactly while the answers are Pending. Every poll
\* answer before the latest one was Pending; after a Pending answer the
\* handler has returned nothing and is waiting for or awaiting the next poll
\* (or that next poll's fetch was rejected);
\* after the first answer that is not Pending the handler has finished, and
\* the polls issued are exactly the polls answered (none follows). At most
\* one poll is unanswered at any time: the one being awaited.
C2_PollsWhilePending ==
  /\ \A i \in 1..(Len(pollLog) - 1) : pollLog[i] = "Pending"
  /\ (PollAnswered /\ LastPollStatus = "Pending")
       => /\ pc \in {"wait", "poll", "threw"} /\ response = NoReturn
          /\ pc = "threw" => Len(CallsOf("poll")) = Len(pollLog) + 1
  /\ (PollAnswered /\ LastPollStatus # "Pending")
       => Finished /\ Len(CallsOf("poll")) = Len(pollLog)
  /\ Len(CallsOf("poll")) \in {Len(pollLog), Len(pollLog) + 1}
  /\ pc = "poll" => Len(CallsOf("poll")) = Len(pollLog) + 1
  /\ pc \in {"wait", "done"} => Len(CallsOf("poll")) = Len(pollLog)

C2_Witness ==
  /\ Returned
  /\ Len(pollLog) = 3
  /\ pollLog[1] = "Pending" /\ pollLog[2] = "Pending"
  /\ pollLog[3] = "Failed"
  /\ Len(CallsOf("poll")) = 3

(* ------------------------------------------------------------------ *)
(* C3                                                                  *)
(* ------------------------------------------------------------------ *)

\* C3: an ok poll answer that is not Pending ends the invocation with a
\* result: Ready with a sample gives {url: sample} with status 200; anything
\* else gives an error with status 500 whose message is the error field,
\* else the message field, else the detail field, else "Generation failed: "
\* followed by the status.
C3_PollClassification ==
  LET r == pollRes.body IN
  (PollAnswered /\ pollRes.ok /\ r.parses /\ r.status # "Pending")
    => /\ Returned
       /\ IF r.status = "Ready" /\ r.result_sample \notin {UNDEFINED, ""}
            THEN IsUrlResult(response, r.result_sample)
            ELSE /\ response.url = UNDEFINED
                 /\ response.status = 500
                 /\ response.error =
                      IF r.error \notin {UNDEFINED, ""} THEN r.error
                      ELSE IF r.message \notin {UNDEFINED, ""} THEN r.message
                      ELSE IF r.detail \notin {UNDEFINED, ""} THEN r.detail
                      ELSE "Generation failed: " \o Template(r.status)

C3_Witness ==
  /\ Returned
  /\ PollAnswered /\ pollRes.ok
  /\ pollRes.body.status = "Ready"
  /\ pollRes.body.result_sample = UNDEFINED
  /\ pollRes.body.error = UNDEFINED
  /\ pollRes.body.detail = "Task not found"
  /\ pollRes.body.message = "Request moderated"
  /\ response.error = "Request moderated"

(* ------------------------------------------------------------------ *)
(* C4                                                                  *)
(* ------------------------------------------------------------------ *)

\* C4 as stated: when k polls were answered Pending and the next one Ready
\* with a sample, the handler returns that sample with status 200 after
\* exactly k + 2 fetches in total.
C4_Original ==
  (Returned /\ PollAnswered /\ pollRes.ok /\ LastPollStatus = "Ready"
     /\ Truthy(pollRes.body.result_sample))
    => /\ IsUrlResult(response, pollRes.body.result_sample)
       /\ Len(calls) = PendingAnswers + 2

\* Fetches of the reference image that precede the submit call.
ReferenceFetches ==
  IF request.image \in {UNDEFINED, ""} /\ request.imageUrl \notin {UNDEFINED, ""}
    THEN 1 ELSE 0

\* C4 (amended): when k polls were answered Pending and the next one Ready
\* with a sample, the handler returns that sample with status 200 after
\* exactly one submit and k + 1 polls; the fetches in total are k + 2, plus
\* one when the request carries a source URL and no inline image.
C4_CallCount ==
  (Returned /\ PollAnswered /\ pollRes.ok /\ LastPollStatus = "Ready"
     /\ Truthy(pollRes.body.result_sample))
    => /\ IsUrlResult(response, pollRes.body.result_sample)
       /\ Len(CallsOf("submit")) = 1
       /\ Len(CallsOf("poll")) = PendingAnswers + 1
       /\ Len(calls) = PendingAnswers + 2 + ReferenceFetches

C4_Witness ==
  /\ Returned
  /\ pollLog = << "Pending", "Pending", "Ready" >>
  /\ response.url = "https://x/final.png"
  /\ ReferenceFetches = 0
  /\ Len(calls) = 4

(* ------------------------------------------------------------------ *)
(* C5                                                                  *)
(* ------------------------------------------------------------------ *)

\* C5: an ok submit answer with a sample is returned as {url: sample} with
\* status 200 and no poll is issued, also when the answer carries a polling
\* url too.
C5_DirectResult ==
  (SubmitAnswered /\ submitRes.ok /\ submitRes.body.parses
     /\ submitRes.body.sample \notin {UNDEFINED, ""})
    => /\ Returned
       /\ IsUrlResult(response, submitRes.body.sample)
       /\ CallsOf("poll") = << >>

C5_Witness ==
  /\ Returned
  /\ submitRes.ok
  /\ submitRes.body.sample = "https://x/img.png"
  /\ submitRes.body.polling_url = "https://x/poll/1"
  /\ response.url = "https://x/img.png"

(* ------------------------------------------------------------------ *)
(* C6                                                                  *)
(* ------------------------------------------------------------------ *)

NoHandle ==
  /\ SubmitAnswered /\ submitRes.ok /\ submitRes.body.parses
  /\ submitRes.body.sample \in {UNDEFINED, ""}
  /\ submitRes.body.polling_url \in {UNDEFINED, ""}

\* C6 as stated: an ok submit answer with neither sample nor polling url is
\* answered with status 500 and the message "no polling handle in response",
\* without any poll.
C6_Original ==
  NoHandle
    => /\ Returned
       /\ response = Response(UNDEFINED, "no polling handle in response", 500)
       /\ CallsOf("poll") = << >>

\* C6 (amended): an ok submit answer with neither sample nor polling url is
\* answered with status 500 and the message "No polling URL in response",
\* without any poll.
C6_NoPollingUrl ==
  NoHandle
    => /\ Returned
       /\ response = Response(UNDEFINED, "No polling URL in response", 500)
       /\ CallsOf("poll") = << >>

C6_Witness ==
  /\ Returned
  /\ NoHandle
  /\ response.status = 500
  /\ Len(calls) = 1

(* ------------------------------------------------------------------ *)
(* C7, C8                                                              *)
(* ------------------------------------------------------------------ *)

\* The message the error policy of the specification gives for a response
\* that is not ok: detail, else message, else error, else the response text
\* (for a JSON body, its serialisation), else the generic string.
PolicyMessage(res, generic) ==
  LET b == res.body
      text == IF b.parses THEN JSONstringify(b) ELSE b.text
  IN  IF b.detail \notin {UNDEFINED, ""} THEN b.detail
      ELSE IF b.message \notin {UNDEFINED, ""} THEN b.message
      ELSE IF b.error \notin {UNDEFINED, ""} THEN b.error
      ELSE IF text # "" THEN text
      ELSE generic

\* C7: a submit answer that is not ok is answered with an error result that
\* carries the provider's status unchanged and the message of the error
\* policy (detail, message, error, response text, "... error (<status>)");
\* no poll is issued.
C7_SubmitError ==
  (SubmitAnswered /\ ~submitRes.ok)
    => /\ Returned
       /\ IsErrorResult(response)
       /\ response.status = submitRes.status
       /\ response.error =
            PolicyMessage(submitRes,
                          "BFL API error (" \o ToString(submitRes.status) \o ")")
       /\ CallsOf("poll") = << >>

\* C8: a poll answer that is not ok ends the loop at that poll: the handler
\* returns an error result with that poll's status and the message of the
\* same error policy, and issues no further poll.
C8_PollError ==
  (PollAnswered /\ ~pollRes.ok)
    => /\ Returned
       /\ IsErrorResult(response)
       /\ response.status = pollRes.status
       /\ response.error =
            PolicyMessage(pollRes,
                          "Poll error (" \o ToString(pollRes.status) \o ")")
       /\ Len(CallsOf("poll")) = Len(pollLog)

(* ------------------------------------------------------------------ *)
(* C9                                                                  *)
(* ------------------------------------------------------------------ *)

\* C9: every returned result has exactly one of url and error: a url result
\* has status 200 and no error, an error result has no url; the status is
\* 400 for a validation failure, the provider's status for a provider HTTP
\* error on submit or poll, and 500 for a missing polling url or a terminal
\* poll answer that is not Ready with a sample.
C9_ResultShape ==
  Returned
    => /\ \/ response.url \notin {UNDEFINED, ""} /\ response.error = UNDEFINED
             /\ response.status = 200
          \/ response.error \notin {UNDEFINED, ""} /\ response.url = UNDEFINED
             /\ response.status # 200
       /\ calls = << >> => response.status = 400
       /\ (SubmitAnswered /\ ~submitRes.ok)
            => response.status = submitRes.status
       /\ (PollAnswered /\ ~pollRes.ok)
            => response.status = pollRes.status
       /\ NoHandle => response.status = 500
       /\ (PollAnswered /\ pollRes.ok /\ response.url = UNDEFINED)
            => response.status = 500

C9_Witness ==
  /\ Returned
  /\ PollAnswered /\ ~pollRes.ok
  /\ pollRes.status = 401
  /\ response.status = 401
  /\ response.error = "Rate limit exceeded"

(* ------------------------------------------------------------------ *)
(* C10                                                                 *)
(* ------------------------------------------------------------------ *)

\* C10: the submit call goes to the 4B endpoint when the variant is '4b' and
\* to the 9B endpoint for every other variant (absent, '9b', anything else),
\* whatever the prompt, the credential and the reference image are.
C10_EndpointByVariant ==
  \A i \in 1..Len(calls) :
    calls[i].kind = "submit"
      => calls[i].url =
           IF request.variant = "4b"
             THEN "https://api.bfl.ai/v1/flux-2-klein-4b"
             ELSE "https://api.bfl.ai/v1/flux-2-klein-9b"

C10_Witness ==
  /\ request.variant = "4B"
  /\ request.image = "aGVsbG8="
  /\ Len(calls) = 1
  /\ calls[1].kind = "submit"
  /\ calls[1].url = BFL_API_9B

(* ------------------------------------------------------------------ *)
(* C11                                                                 *)
(* ------------------------------------------------------------------ *)

LastCall == calls[Len(calls)]

\* C11: the handler never retries. It issues at most one submit; once a
\* failure is known (validation, a submit or poll answer that is not ok, a
\* missing polling url, a terminal poll answer that is not a success) the
\* handler has finished and the call that failed is the last call issued.
C11_NeverRetries ==
  /\ Len(CallsOf("submit")) <= 1
  /\ (pc # "idle" /\ (request.prompt \in {UNDEFINED, ""}
                      \/ request.apiKey \in {UNDEFINED, ""}))
       => Finished /\ calls = << >>
  /\ ((SubmitAnswered /\ ~submitRes.ok) \/ NoHandle)
       => Finished /\ LastCall.kind = "submit"
  /\ (PollAnswered /\ LastPollStatus # "Pending"
        /\ ~(pollRes.ok /\ pollRes.body.status = "Ready"
               /\ pollRes.body.result_sample \notin {UNDEFINED, ""}))
       => /\ Finished
          /\ LastCall.kind = "poll"
          /\ Len(CallsOf("poll")) = Len(pollLog)

C11_Witness ==
  /\ Returned
  /\ pollLog = << "Pending", "Failed" >>
  /\ response.status = 500
  /\ Len(calls) = 3

(* ------------------------------------------------------------------ *)
(* C12                                                                 *)
(* ------------------------------------------------------------------ *)

\* C12: the submit call and every poll call carry the request's apiKey as
\* X-Key header; the body of the submit call has exactly the fields prompt,
\* width (768), height (768), prompt_upsampling (false) and input_image, so
\* the credential is no field of it.
C12_CredentialInHeader ==
  \A i \in 1..Len(calls) :
    /\ calls[i].kind \in {"submit", "poll"}
         => calls[i].xKey = request.apiKey
    /\ calls[i].kind = "submit"
         => /\ DOMAIN calls[i].body =
                 {"prompt", "width", "height", "prompt_upsampling",
                  "input_image"}
            /\ calls[i].body.prompt = request.prompt
            /\ calls[i].body.width = 768
            /\ calls[i].body.height = 768
            /\ calls[i].body.prompt_upsampling = FALSE

C12_Witness ==
  /\ Len(CallsOf("poll")) = 2
  /\ \A i \in 1..Len(calls) :
       calls[i].kind # "image" => calls[i].xKey = "test-key"

(* ------------------------------------------------------------------ *)
(* C13                                                                 *)
(* ------------------------------------------------------------------ *)

\* C13: when the request carries an inline image, the submit body's
\* input_image is that payload unchanged and no reference URL is fetched,
\* also when the request carries an imageUrl as well.
C13_InlineImageForwarded ==
  (pc # "idle" /\ request.prompt \notin {UNDEFINED, ""}
     /\ request.apiKey \notin {UNDEFINED, ""}
     /\ request.image \notin {UNDEFINED, ""})
    => /\ CallsOf("image") = << >>
       /\ Len(CallsOf("submit")) = 1
       /\ calls[1].kind = "submit"
       /\ calls[1].body.input_image = request.image

C13_Witness ==
  /\ Returned
  /\ request.image = "aGVsbG8="
  /\ request.imageUrl = "https://x/ref.png"
  /\ Len(calls) = 1
  /\ calls[1].kind = "submit"
  /\ calls[1].body.input_image = "aGVsbG8="

(* ------------------------------------------------------------------ *)
(* C14                                                                 *)
(* ------------------------------------------------------------------ *)

\* The base64 text of the byte strings a reference URL answers with.
Base64Of(bytes) ==
  CASE bytes = << >> -> ""
    [] bytes = << 255 >> -> "/w=="
    [] bytes = << 104, 105 >> -> "aGk="
    [] bytes = << 137, 80, 78, 71 >> -> "iVBORw=="
    [] bytes = << 137, 80, 78 >> -> "iVBO"

\* C14: when the request carries an imageUrl and no inline image, that URL
\* is fetched exactly once, as the first call; the submit is issued only
\* after the fetch was answered, and its input_image is the base64 text of
\* the bytes that came back.
C14_SourceUrlFetchedOnce ==
  (pc # "idle" /\ request.prompt \notin {UNDEFINED, ""}
     /\ request.apiKey \notin {UNDEFINED, ""}
     /\ request.image \in {UNDEFINED, ""}
     /\ request.imageUrl \notin {UNDEFINED, ""})
    => /\ Len(CallsOf("image")) = 1
       /\ calls[1].kind = "image"
       /\ calls[1].url = request.imageUrl
       /\ \A i \in 1..Len(calls) :
            calls[i].kind = "submit"
              => /\ i = 2
                 /\ imageRes # NoImageResponse
                 /\ calls[i].body.input_image = Base64Of(imageRes.bytes)

C14_Witness ==
  /\ Returned
  /\ request.image = ""
  /\ imageRes.bytes = << 137, 80, 78, 71 >>
  /\ Len(calls) = 2
  /\ calls[2].body.input_image = "iVBORw=="

(* ------------------------------------------------------------------ *)
(* Observations of the component                                       *)
(* ------------------------------------------------------------------ *)

\* The handleGenerate invocations that have not run to their end, and those
\* whose proxy call is outstanding.
InFlight == { i \in DOMAIN attempts : attempts[i].pc # "done" }
Calling == { i \in DOMAIN attempts : attempts[i].pc = "fetch" }
Ended(outcome) == { i \in DOMAIN attempts : attempts[i].outcome = outcome }

\* The status of the spec's state machine as the page shows it.
Idle == ~state.isGenerating

(* ------------------------------------------------------------------ *)
(* C15  At most one generation is in flight: between an accepted        *)
(* trigger and its resolution no other trigger gets past the guard, so  *)
(* no second handleGenerate invocation is running and no second proxy   *)
(* call is outstanding, also when the triggers arrive before React has  *)
(* rendered isGenerating = true.                                        *)
(* The guard on line 95 reads the isGenerating of the last render, so   *)
(* two Enter presses handled before the next render both pass it.       *)
(* ------------------------------------------------------------------ *)
C15_SingleFlight ==
  /\ Cardinality(InFlight) <= 1
  /\ Cardinality(Calling) <= 1

(* ------------------------------------------------------------------ *)
(* C16  When a generation succeeds, the current image is the new result *)
(* and the previous image is the one that was on display as current     *)
(* when the attempt started.  As claimed: after the first successful    *)
(* generation there is no previous image.                               *)
(* An image dropped before the first generation is on display when it   *)
(* starts, and becomes the previous image.                              *)
(* ------------------------------------------------------------------ *)
C16_Original ==
  [][\A i \in DOMAIN attempts :
       imageLoaded(i) =>
         /\ state'.currentImageUrl = attempts[i].imageUrl
         /\ IF Ended("success") = { }
              THEN state'.previousImageUrl = NULL
              ELSE state'.previousImageUrl = attempts[i].currentImageUrl
    ]_<< vars, ctlVars >>

\* C16, amended: the image on display when the attempt started, if there
\* was one, becomes the previous image, after the first successful
\* generation as after any other; if there was none the previous image is
\* left as it is.
C16_Crossfade ==
  [][\A i \in DOMAIN attempts :
       imageLoaded(i) =>
         /\ state'.currentImageUrl = attempts[i].imageUrl
         /\ state'.previousImageUrl =
              IF attempts[i].currentImageUrl # NULL
                THEN attempts[i].currentImageUrl
                ELSE state.previousImageUrl
    ]_<< vars, ctlVars >>

\* A second success that started after the first one was on display.
C16_Witness ==
  /\ Len(attempts) = 2
  /\ attempts[1].outcome = "success"
  /\ attempts[2].outcome = "success"
  /\ attempts[2].currentImageUrl = attempts[1].imageUrl
  /\ state.previousImageUrl = attempts[1].imageUrl
  /\ state.currentImageUrl = attempts[2].imageUrl

(* ------------------------------------------------------------------ *)
(* C17  A trigger with a non-empty prompt and no key shows the warning, *)
(* calls nothing and changes nothing: once it has been handled, status, *)
(* loading overlay, readout and images are as before the trigger.       *)
(* Stated for the first trigger of a session in which nothing has been  *)
(* dropped: before it the page is Idle, the overlay hidden, the readout *)
(* empty, and there are no images.                                      *)
(* The key is only looked at in generateImage, after lines 96-106 have  *)
(* run; the overlay stays up and the readout keeps the elapsed time.    *)
(* ------------------------------------------------------------------ *)
C17_NoCredentialNoTransition ==
  ( /\ Len(attempts) = 1
    /\ attempts[1].outcome = "nokey"
    /\ drops = << >> )
  => /\ alerts = << NoKeyAlert >>
     /\ fetches = << >>
     /\ Idle
     /\ ~state.showLoading
     /\ state.genTime = ""
     /\ state.currentImageUrl = NULL
     /\ state.previousImageUrl = NULL

(* ------------------------------------------------------------------ *)
(* C18  After a failed attempt the readout is empty and the overlay is  *)
(* hidden, and the readout does not come back with a value of the       *)
(* failed attempt: while every attempt so far has failed, genTime is '' *)
(* and showLoading is false, and no interval of a failed attempt runs.  *)
(* The catch block clears the interval timerIntervalRef points to; when *)
(* two attempts overlap (C15) that is the later attempt's interval, and *)
(* the earlier one keeps setting genTime.                               *)
(* ------------------------------------------------------------------ *)
C18_FailureClearsReadout ==
  /\ \A i \in Ended("failed") : attempts[i].interval \notin intervals
  /\ ( attempts # << >> /\ Ended("failed") = DOMAIN attempts )
       => state.genTime = "" /\ ~state.showLoading

(* ------------------------------------------------------------------ *)
(* C19  A failed attempt leaves the image state alone: no step of       *)
(* handleGenerate other than the promotion of a loaded image changes    *)
(* the current image, the previous image, the edit-mode flag or the     *)
(* retained inline payload, so a failed attempt hands them on as it     *)
(* found them.                                                          *)
(* ------------------------------------------------------------------ *)
C19_FailureKeepsImages ==
  [][ ( \/ handleGenerate
        \/ \E i \in DOMAIN attempts :
             \/ generateImageReturnedNull(i)
             \/ imageFailed(i)
             \/ \E a \in ProxyAnswers(attempts[i].request) :
                  generateImageSettled(i, a) )
      => ImageState(state', refs') = ImageState(state, refs)
    ]_<< vars, ctlVars >>

\* An attempt that started in edit mode on a dropped image has failed, and
\* image, flag and payload are as it found them.
C19_Witness ==
  \E i \in Ended("failed") :
    /\ attempts[i].before.currentImageUrl = BlobUrl(1)
    /\ attempts[i].before.editMode
    /\ attempts[i].before.referenceImageBase64Ref = FileBase64(1)
    /\ ImageState(state, refs) = attempts[i].before

(* ------------------------------------------------------------------ *)
(* C20  Every accepted attempt that has run to its end, successfully or *)
(* not, has set the page back to Idle; an accepted attempt issues one   *)
(* proxy call of its own and never another (none when there is no key); *)
(* and once a failure has been rendered, the guard lets the next Enter  *)
(* through whenever the prompt is not blank.                            *)
(* ------------------------------------------------------------------ *)
C20_ReturnsToIdle ==
  /\ InFlight = { } => Idle
  /\ \A i \in DOMAIN attempts :
       /\ attempts[i].request = 0
            <=> ( attempts[i].pc = "nokey" \/ attempts[i].outcome = "nokey" )
       /\ attempts[i].request <= Len(fetches)
       /\ \A j \in DOMAIN attempts :
            ( i # j /\ attempts[i].request # 0 )
              => attempts[i].request # attempts[j].request
  /\ Len(fetches) = Cardinality({ i \in DOMAIN attempts :
                                    attempts[i].request # 0 })
  /\ ( /\ InFlight = { }
       /\ Ended("failed") # { }
       /\ batch = 0
       /\ rendered = Closure(state) )
       => ( Ignored(rendered) <=> trim(state.prompt) = << >> )

\* A failed attempt, then a second Enter that was accepted and issued the
\* second proxy call, and both have run to their end.  The attempts did not
\* overlap: each one stopped its own interval.
C20_Witness ==
  /\ Len(attempts) = 2
  /\ attempts[1].outcome = "failed"
  /\ attempts[2].before.currentImageUrl = NULL
  /\ attempts[2].request = 2
  /\ attempts[2].outcome \in { "success", "failed" }
  /\ Len(alerts) >= 1
  /\ intervals = { }
  /\ Idle

(* ------------------------------------------------------------------ *)
(* C21  The request of an attempt carries a reference image only when   *)
(* the page is in edit mode and shows a current image: the retained     *)
(* inline payload when that image was dropped, its URL when it is a     *)
(* result of the provider, never both; otherwise neither.               *)
(* ------------------------------------------------------------------ *)
C21_ReferenceOnlyInEditMode ==
  [][ ( handleGenerate /\ Len(fetches') = Len(fetches) + 1 )
      => LET b == fetches'[Len(fetches')]
             shown == rendered.currentImageUrl
             fromDrop ==
               \E j \in DOMAIN drops :
                 drops[j].pc = "done" /\ shown = BlobUrl(j)
             fromResult ==
               \E i \in Ended("success") : shown = attempts[i].imageUrl
         IN /\ ~( b.image # UNDEFINED /\ b.imageUrl # UNDEFINED )
            /\ IF rendered.editMode /\ shown # NULL
                 THEN /\ fromDrop \/ fromResult
                      /\ fromDrop =>
                           /\ b.image = refs.referenceImageBase64Ref
                           /\ b.image # NULL
                           /\ b.imageUrl = UNDEFINED
                      /\ fromResult =>
                           /\ b.imageUrl = shown
                           /\ b.image = UNDEFINED
                 ELSE b.image = UNDEFINED /\ b.imageUrl = UNDEFINED
    ]_<< vars, ctlVars >>

\* A request with the payload of the dropped image, then one with the URL
\* of the first result.
C21_Witness ==
  /\ Len(fetches) = 2
  /\ fetches[1].image = FileBase64(1)
  /\ fetches[1].imageUrl = UNDEFINED
  /\ fetches[2].imageUrl = ResultUrl(1)
  /\ fetches[2].image = UNDEFINED

(* ------------------------------------------------------------------ *)
(* C22  Enter on a prompt that is blank after trimming does nothing: no *)
(* proxy call, no change of state.  The request of an accepted trigger  *)
(* carries the prompt without its surrounding whitespace and the        *)
(* selected model variant.                                              *)
(* ------------------------------------------------------------------ *)

\* The prompts of the model with their surrounding whitespace removed,
\* written out.
Trimmed(p) ==
  CASE p = << >> -> ""
    [] p = << " " >> -> ""
    [] p = << " ", "c", "a", "t", " " >> -> "cat"

C22_TrimmedPromptAndVariant ==
  [][ handleGenerate
      => /\ Trimmed(rendered.prompt) = "" => UNCHANGED ctlVars
         /\ Len(fetches') = Len(fetches) + 1
              => /\ fetches'[Len(fetches')].prompt = Trimmed(rendered.prompt)
                 /\ fetches'[Len(fetches')].prompt # ""
                 /\ fetches'[Len(fetches')].variant = rendered.modelVariant
                 /\ batch = 0 =>
                      fetches'[Len(fetches')].variant = state.modelVariant
         /\ Len(fetches') \in { Len(fetches), Len(fetches) + 1 }
    ]_<< vars, ctlVars >>

\* ' cat ' went out as 'cat' with the variant 4b selected; the attempt is
\* over and the page now holds a blank prompt, on which Enter does nothing.
C22_Witness ==
  /\ Len(fetches) = 1
  /\ fetches[1].prompt = "cat"
  /\ fetches[1].variant = "4b"
  /\ attempts[1].outcome # ""
  /\ rendered.prompt = << " " >>
  /\ ~rendered.isGenerating
  /\ batch = 0

(* ------------------------------------------------------------------ *)
(* C23  A drop that carries no file, or a file that is not an image,    *)
(* changes no image state: current image, previous image, edit-mode     *)
(* flag and retained payload stay as they are and no file is read; only *)
(* the drag state is reset.                                             *)
(* ------------------------------------------------------------------ *)
C23_NonImageDropIgnored ==
  [][ \A file \in Files :
        ( handleDrop(file) /\ ( ~file.present \/ file.type = "text/plain" ) )
        => /\ ImageState(state', refs') = ImageState(state, refs)
           /\ state' = [state EXCEPT !.isDragOver = FALSE]
           /\ refs' = [refs EXCEPT !.dragCounterRef = 0]
           /\ drops'[Len(drops')].pc = "ignored"
           /\ UNCHANGED << attempts, intervals, fetches, alerts, frames >>
    ]_<< vars, ctlVars >>

\* A text file was dropped after an image: the image, the flag and the
\* payload of the first drop are still there.
C23_Witness ==
  /\ Len(drops) = 2
  /\ drops[1].pc = "done"
  /\ drops[2].pc = "ignored"
  /\ drops[2].currentImageUrl = BlobUrl(1)
  /\ state.currentImageUrl = BlobUrl(1)
  /\ state.editMode
  /\ refs.referenceImageBase64Ref = FileBase64(1)
  /\ refs.dragCounterRef = 0
  /\ ~state.isDragOver

(* ------------------------------------------------------------------ *)
(* C24  When the read of a dropped image completes, its base64 payload  *)
(* is the retained payload, whatever was retained before; its preview   *)
(* is the current image; the image that was on display when it was      *)
(* dropped, if any, is the previous image; and edit mode is on.         *)
(* ------------------------------------------------------------------ *)
C24_ImageDropIngested ==
  [][ \A j \in DOMAIN drops :
        fileRead(j)
        => /\ refs'.referenceImageBase64Ref = FileBase64(j)
           /\ state'.currentImageUrl = BlobUrl(j)
           /\ state'.editMode
           /\ state'.previousImageUrl =
                IF drops[j].currentImageUrl # NULL
                  THEN drops[j].currentImageUrl
                  ELSE state.previousImageUrl
    ]_<< vars, ctlVars >>

\* A second image dropped while the first was on display: the second
\* payload replaced the first, and the first preview is the previous image.
C24_Witness ==
  /\ Len(drops) >= 2
  /\ \E j, k \in ImageDrops :
       /\ j < k
       /\ drops[j].pc = "done"
       /\ drops[k].pc = "done"
       /\ drops[k].currentImageUrl = BlobUrl(j)
       /\ state.previousImageUrl = BlobUrl(j)
       /\ state.currentImageUrl = BlobUrl(k)
       /\ refs.referenceImageBase64Ref = FileBase64(k)
  /\ state.editMode

(* ------------------------------------------------------------------ *)
(* C25  For every sequence of drag-enter, drag-leave and drop events    *)
(* the drag-active state is true only while the nesting counter is      *)
(* positive.                                                            *)
(* handleDragLeave decrements without a floor and handleDragEnter sets  *)
(* isDragOver whatever the counter is: after a leave that no enter      *)
(* preceded, the next enter shows the overlay with the counter at zero. *)
(* ------------------------------------------------------------------ *)
C25_DragActiveOnlyWhilePositive ==
  state.isDragOver => refs.dragCounterRef > 0

(* ------------------------------------------------------------------ *)
(* Observations of the proxy's network history                          *)
(* ------------------------------------------------------------------ *)
\* Answers received so far, of any kind of request.
Answered ==
  (IF imageRes # NoImageResponse THEN 1 ELSE 0)
  + (IF submitRes # NoResponse THEN 1 ELSE 0)
  + Len(pollLog)

\* Requests issued and not answered yet.
Outstanding == Len(calls) - Answered

Issued(kind) == Len(calls') = Len(calls) + 1 /\ calls'[Len(calls')].kind = kind

(* ------------------------------------------------------------------ *)
(* C26  Within one invocation the network steps are sequential: at most *)
(* one request is outstanding at any time, a step issues at most one    *)
(* request, the submit is issued once and before any poll, and every    *)
(* poll is issued by the expiry of a wait that follows the submit       *)
(* answer and the answers of all the polls issued before it.            *)
(* ------------------------------------------------------------------ *)
C26_SequentialNetworkSteps ==
  [][ /\ Outstanding' \in { 0, 1 }
      /\ Len(calls') # Len(calls) => Len(calls') = Len(calls) + 1
      /\ Issued("submit") => CallsOf("submit") = << >> /\ CallsOf("poll") = << >>
      /\ Issued("poll")
           => /\ pc = "wait"
              /\ submitRes # NoResponse
              /\ Len(CallsOf("poll")) = Len(pollLog)
              /\ Len(pollLog) > 0 => pollRes # NoResponse
    ]_<< vars, ctlVars >>

\* A third poll is outstanding after two answered ones.
C26_Witness ==
  /\ pc = "poll"
  /\ Len(CallsOf("submit")) = 1
  /\ Len(CallsOf("poll")) = 3
  /\ Len(pollLog) = 2
  /\ Outstanding = 1

(* ------------------------------------------------------------------ *)
(* C27  The proxy has no iteration cap: a poll answered Pending is      *)
(* followed by a wait and, when the wait expires, by another poll (up   *)
(* to the MaxPolls polls the model follows), no result is a timeout     *)
(* error, and once a poll is answered with a status other than Pending  *)
(* or with a non-success HTTP status, the proxy returns a result.       *)
(* A non-success poll answer whose body is not JSON makes the handler   *)
(* reject (C8): it never returns.                                       *)
(* ------------------------------------------------------------------ *)
PendingAnswer ==
  /\ pollRes # NoResponse
  /\ pollRes.ok
  /\ pollRes.body.parses
  /\ pollRes.body.status = "Pending"

TerminalAnswer ==
  /\ pollRes # NoResponse
  /\ \/ ~pollRes.ok
     \/ pollRes.body.parses /\ pollRes.body.status # "Pending"

C27_UnboundedPolling ==
  /\ [](response.error # "Polling timeout")
  /\ [][ Len(pollLog') > Len(pollLog) /\ PendingAnswer' => pc' = "wait" ]_<< vars, ctlVars >>
  /\ (pc = "wait" /\ Len(CallsOf("poll")) < MaxPolls) ~> (pc = "poll")
  /\ TerminalAnswer ~> Returned

(* ------------------------------------------------------------------ *)
(* C28  The bounded variant issues at most 10 poll requests in one      *)
(* invocation, and its result is the timeout error with status 500      *)
(* exactly when 10 polls have been answered and all of them answered    *)
(* Pending.                                                             *)
(* ------------------------------------------------------------------ *)
TenPending ==
  /\ Len(bounded.pollLog) = 10
  /\ \A i \in 1..10 : bounded.pollLog[i] = "Pending"

C28_BoundedPolling ==
  /\ Len(BoundedCallsOf("poll")) <= 10
  /\ TenPending
       <=> /\ bounded.pc = "done"
           /\ bounded.result =
                [ url |-> UNDEFINED, error |-> "Polling timeout", status |-> 500 ]
  /\ bounded.result.error = "Polling timeout" => bounded.result.status = 500

\* The tenth poll was answered Pending and the invocation is over.
C28_Witness ==
  /\ bounded.pc = "done"
  /\ Len(BoundedCallsOf("poll")) = 10
  /\ TenPending
  /\ bounded.result.error = "Polling timeout"

(* ------------------------------------------------------------------ *)
(* C29  When the fetch of the reference image fails, by rejecting or    *)
(* with a non-success status, the proxy returns an error result and     *)
(* issues no submit POST.                                               *)
(* urlToBase64 does not look at response.ok and nothing catches a       *)
(* rejected fetch: a 404 answer is encoded and submitted as the image,  *)
(* and a rejection makes the handler reject.                            *)
(* ------------------------------------------------------------------ *)
ImageFetchAnsweredNotOk == imageRes # NoImageResponse /\ ~imageRes.ok

ImageFetchWasRejected ==
  /\ pc = "threw"
  /\ Len(calls) = 1
  /\ calls[1].kind = "image"

C29_ImageFetchFailure ==
  /\ ImageFetchAnsweredNotOk
       => /\ CallsOf("submit") = << >>
          /\ Returned
          /\ response.error # UNDEFINED
          /\ response.status = imageRes.status
  /\ ~ImageFetchWasRejected

(* ------------------------------------------------------------------ *)
(* C30  Every attempt stops the elapsed-time readout exactly once,      *)
(* whatever its outcome: an attempt that has ended has made one         *)
(* clearInterval call, and no attempt ever makes two.                   *)
(* When the preload of the result fails, the attempt has already        *)
(* stopped the readout at lines 111-113 and its catch block stops it    *)
(* again at lines 144-146.                                              *)
(* ------------------------------------------------------------------ *)
C30_StoppedExactlyOnce ==
  \A i \in DOMAIN attempts :
    /\ attempts[i].stops <= 1
    /\ attempts[i].pc = "done" => attempts[i].stops = 1

(* ------------------------------------------------------------------ *)
(* C31  While the controller is not submitting no elapsed-time interval *)
(* is running, and an attempt that has run to its end has had its own   *)
(* interval cleared, for every interleaving of triggers.                *)
(* timerIntervalRef holds one interval id: when two attempts overlap    *)
(* (C15) the second setInterval overwrites the first id, both attempts  *)
(* clear the second interval and the first keeps running.               *)
(* ------------------------------------------------------------------ *)
C31_NoIntervalWhenIdle ==
  /\ Idle => intervals = { }
  /\ \A i \in DOMAIN attempts :
       attempts[i].pc = "done" => attempts[i].interval \notin intervals

(* ------------------------------------------------------------------ *)
(* C32  A result image becomes the current image only in the step in    *)
(* which its preload fires onload; and the step in which the preload    *)
(* fires onerror empties the readout, shows an error message, leaves    *)
(* the current and the previous image as they were and sets the         *)
(* controller back to Idle.                                             *)
(* ------------------------------------------------------------------ *)
C32_PreloadBeforePromotion ==
  [][ /\ ( state'.currentImageUrl # state.currentImageUrl
           /\ ~IsBlobUrl(state'.currentImageUrl) )
        => \E i \in DOMAIN attempts :
             /\ attempts[i].pc = "preload"
             /\ attempts'[i].outcome = "success"
             /\ attempts[i].imageUrl = state'.currentImageUrl
      /\ \A i \in DOMAIN attempts :
           imageFailed(i)
           => /\ state'.genTime = ""
              /\ Len(alerts') = Len(alerts) + 1
              /\ alerts'[Len(alerts')] = "Generation failed"
              /\ state'.currentImageUrl = state.currentImageUrl
              /\ state'.previousImageUrl = state.previousImageUrl
              /\ ~state'.isGenerating
              /\ ~state'.showLoading
    ]_<< vars, ctlVars >>

\* A generation started on a dropped image, the proxy answered with a url,
\* the preload failed: the dropped image is still the current one, the
\* message is shown and the page is idle.
C32_Witness ==
  /\ \E i \in Ended("failed") : attempts[i].imageUrl # UNDEFINED
  /\ InFlight = { }
  /\ state.currentImageUrl = BlobUrl(1)
  /\ alerts = << "Generation failed" >>
  /\ state.genTime = ""
  /\ Idle

(* ------------------------------------------------------------------ *)
(* C33  The retained inline payload has no concurrent writers: only a   *)
(* completing drop ingestion writes it, no other ingestion is in        *)
(* progress when one writes, and none writes while an attempt is in     *)
(* flight.                                                              *)
(* handleDrop does not look at isGenerating and does not wait for an    *)
(* earlier drop: a file read that completes during a generation writes  *)
(* the payload, and two reads can be in progress together.              *)
(* ------------------------------------------------------------------ *)
Reading == { j \in DOMAIN drops : drops[j].pc = "reading" }

C33_NoConcurrentWriters ==
  [][ /\ refs'.referenceImageBase64Ref # refs.referenceImageBase64Ref
        => \E j \in Reading : fileRead(j)
      /\ \A j \in Reading :
           fileRead(j) => Reading = { j } /\ InFlight = { }
    ]_<< vars, ctlVars >>

(* ------------------------------------------------------------------ *)
(* C34  Every failure in the controller shows a message: the step that  *)
(* sees a rejected proxy call, an unparsable proxy answer, a proxy      *)
(* error answer, a failed preload or a failed read of a dropped image   *)
(* file adds a non-empty alert.                                         *)
(* handleDrop awaits fileToBase64 without try/catch: a failed read      *)
(* rejects handleDrop's promise and nothing is shown.                   *)
(* ------------------------------------------------------------------ *)
Alerted ==
  /\ Len(alerts') = Len(alerts) + 1
  /\ alerts'[Len(alerts')] \notin { "", UNDEFINED }

C34_NoSilentFailure ==
  [][ /\ \A i \in DOMAIN attempts :
           /\ \A a \in ProxyAnswers(attempts[i].request) :
                ( generateImageSettled(i, a)
                  /\ (a.rejected \/ ~a.parses \/ ~a.ok) ) => Alerted
           /\ imageFailed(i) => Alerted
      /\ \A j \in DOMAIN drops : fileReadFailed(j) => Alerted
    ]_<< vars, ctlVars >>

(* ------------------------------------------------------------------ *)
(* C35  The drag nesting counter is never negative, for every order of  *)
(* drag-enter, drag-leave and drop events, leaves without an earlier    *)
(* enter and leaves after a drop included.                              *)
(* handleDragLeave decrements whatever the counter is.                  *)
(* ------------------------------------------------------------------ *)
C35_CounterNonNegative == refs.dragCounterRef >= 0

(* ------------------------------------------------------------------ *)
(* C36  While no generation is in flight and the page is Idle, the      *)
(* loading overlay is hidden, whatever the attempts before ended with:  *)
(* success, failure, no credential, or a proxy answer without url.      *)
(* showLoading is set back to false only in the promotion (line 134)    *)
(* and in the catch block (line 150); an attempt whose generateImage    *)
(* returns null or undefined reaches neither.                           *)
(* ------------------------------------------------------------------ *)
C36_OverlayHiddenWhenIdle ==
  ( InFlight = { } /\ Idle ) => ~state.showLoading

(* ------------------------------------------------------------------ *)
(* C37  At every promotion, by a loaded result or by a dropped image    *)
(* that has been read, the image that becomes previous is the one that  *)
(* was current immediately before the promotion (and the previous image *)
(* stays when there was none), also when another promotion happened     *)
(* since the generation or the drop began.                              *)
(* Both handlers demote the currentImageUrl of the render in which they *)
(* were created, not the one of the moment of the promotion.            *)
(* ------------------------------------------------------------------ *)
Demoted ==
  state'.previousImageUrl =
    IF state.currentImageUrl # NULL
      THEN state.currentImageUrl
      ELSE state.previousImageUrl

C37_PreviousIsLastCurrent ==
  [][ /\ \A i \in DOMAIN attempts : imageLoaded(i) => Demoted
      /\ \A j \in DOMAIN drops : fileRead(j) => Demoted
    ]_<< vars, ctlVars >>

(* ------------------------------------------------------------------ *)
(* C38  A request that attaches an inline payload attaches the base64   *)
(* of the dropped file whose preview is the current image when Enter is *)
(* pressed (the image the page shows), and never null, for every        *)
(* interleaving of drops and triggers.                                  *)
(* generateImage takes the blob test from the render's currentImageUrl  *)
(* and the payload from the ref: after the read of a later drop has     *)
(* completed and before React has rendered it, the page shows the       *)
(* earlier preview and the ref holds the later file.                    *)
(* ------------------------------------------------------------------ *)
C38_PayloadOfCurrentImage ==
  [][ ( /\ handleGenerate
        /\ Len(fetches') = Len(fetches) + 1
        /\ fetches'[Len(fetches')].image # UNDEFINED )
      => /\ fetches'[Len(fetches')].image # NULL
         /\ \E j \in DOMAIN drops :
              /\ rendered.currentImageUrl = BlobUrl(j)
              /\ fetches'[Len(fetches')].image = FileBase64(j)
    ]_<< vars, ctlVars >>

(* ------------------------------------------------------------------ *)
(* C39  Edit mode is on only while there is a current image, and there  *)
(* is a previous image only if there is a current one: the edit flag    *)
(* changes only when an image is current, and a current image, once     *)
(* set, is never taken away.                                            *)
(* ------------------------------------------------------------------ *)
EditNeedsImage ==
  /\ state.editMode => state.currentImageUrl # NULL
  /\ state.previousImageUrl # NULL => state.currentImageUrl # NULL

C39_EditModeNeedsImage ==
  /\ EditNeedsImage
  /\ [][ /\ EditNeedsImage'
         /\ state'.editMode # state.editMode
              => state'.currentImageUrl # NULL
         /\ state.currentImageUrl # NULL => state'.currentImageUrl # NULL
       ]_<< vars, ctlVars >>

\* Edit mode is on, and rendered, on a result that replaced a dropped
\* image.
C39_Witness ==
  /\ state.editMode
  /\ rendered.editMode
  /\ state.previousImageUrl = BlobUrl(1)
  /\ \E i \in Ended("success") : state.currentImageUrl = attempts[i].imageUrl

(* ------------------------------------------------------------------ *)
(* C40  Called with the same request and given the same answers, the    *)
(* bounded variant makes the calls the handler makes, in the same       *)
(* order (kind, method, url, X-Key header, body), and when the handler  *)
(* has ended with at most 10 polls made, the variant has ended the same *)
(* way: both returned the same url or error with the same status, or    *)
(* both rejected.                                                       *)
(* ------------------------------------------------------------------ *)
HandlerEnded == pc \in { "done", "threw" }

WithinTenPolls == Len(CallsOf("poll")) <= 10

C40_BoundedVariantAgrees ==
  WithinTenPolls
  => /\ Len(bounded.calls) <= Len(calls)
     /\ \A k \in DOMAIN bounded.calls : bounded.calls[k] = calls[k]
     /\ ( HandlerEnded /\ ~Behind )
          => /\ bounded.calls = calls
             /\ bounded.pc = pc
             /\ bounded.result.url = response.url
             /\ bounded.result.error = response.error
             /\ bounded.result.status = response.status

\* Nine polls answered Pending and the tenth Ready: both have returned the
\* url of the sample with status 200.
C40_Witness ==
  /\ pc = "done"
  /\ bounded.pc = "done"
  /\ Len(CallsOf("poll")) = 10
  /\ Len(bounded.pollLog) = 10
  /\ response = [ url |-> "https://x/final.png", error |-> UNDEFINED,
                  status |-> 200 ]
  /\ bounded.result = response

====
